---- MODULE Spec2Model ----
(***************************************************************************)
(* Payment orchestrator: the durable job queue, the step-execution loop,   *)
(* the callback matcher and the TSQ controller, as state machines over the *)
(* database tables the services read and write.  One unit of the clock is  *)
(* five minutes: the job lock window, the callback timeout and the TSQ     *)
(* retry interval are all 5 minutes in the source, the stale-lease         *)
(* threshold is 10.                                                        *)
(***************************************************************************)
EXTENDS Integers, Sequences, FiniteSets, TLC

\* ------------------------------------------------------------------ bounds

MaxTime == 3
NJobs == 2
NInst == 1
MaxStepExecs == 4
MaxCallbacks == 2
MaxTsq == 1
MaxSecs == 2
MaxErrors == 2
MaxReversals == 1

\* ------------------------------------------------------- program constants

\* flowExecutorJob.js:20, locked_at < NOW() - INTERVAL '5 minutes'
LockWindow == 1
\* flowExecutorJob.js:132, locked_at < NOW() - INTERVAL '10 minutes'
StaleLease == 2
\* flowExecutorJob.js:22, LIMIT 10
BatchLimit == 10
\* flowExecutorJob.js:72 and the job_queue schema, max_attempts INT DEFAULT 3
JobMaxAttempts == 3
\* backoff units (30 s) in one unit of the clock (5 minutes)
BackoffPerUnit == 10
\* flowExecutorJob.js:147, created_at < NOW() - INTERVAL '7 days' (2016 units)
JobRetention == 2016
\* callbackMatcherJob sendPendingBfsCallbacks, created_at > NOW() - INTERVAL
\* '24 hours' (288 units)
NotifyWindow == 288
\* callbackMatcherJob retryFailedBfsCallbacks, const maxRetries = 5
BfsMaxRetries == 5
\* executionService executeFromStep, const maxSteps = 100
maxSteps == 100
\* executionService executeApiCallStep, config.callbackTimeout || 300000
CallbackTimeout == 1
\* tsqService, const MAX_TSQ_RETRIES = 3
MAX_TSQ_RETRIES == 3
\* tsqService, const TSQ_RETRY_INTERVAL_MS = 5 * 60 * 1000
TSQ_RETRY_INTERVAL == 1
\* tsqSchedulerJob scheduleTsqForIndeterminateResponses, INTERVAL '5 minutes'
IndeterminateAge == 1
\* tsqService processPendingTsqRequests, LIMIT 50
TsqLoopLimit == 50
\* tsqSchedulerJob processPendingTsqRequests, LIMIT 10
TsqJobLimit == 10

Null == -1

Workers == {"w1", "w2"}
Handlers == {"h1"}
\* The TSQ service loop and the TSQ scheduler job
TsqLoop == "tsqLoop"
TsqJob == "tsqJob"
BfsPending == "bfsPending"
BfsRetry == "bfsRetry"
RevJob == "revJob"
\* Runs of the TSQ scheduler: the cron starts one every minute whether or
\* not the run before it has returned
Schedulers == {"sched1", "sched2"}
Procs == Workers \cup Handlers
            \cup {TsqLoop, TsqJob, BfsPending, BfsRetry, RevJob}
            \cup Schedulers
JobIds == 1..NJobs
Insts == 1..NInst

\* The job payload names its flow instance; a job beyond the instances
\* carries a payload whose flowInstanceId names no instance.
JobInst(j) == IF j \in Insts THEN j ELSE 0

VARIABLES
    now,          \* the database clock, in units of the lock window
    secs,         \* the time since the clock's last unit, in backoff units
    flow,         \* the flow definition of the instances (steps by step_order)
    jobs,         \* job_queue rows
    sel,          \* rows each in-flight claim statement holds locked
    batch,        \* rows a claim returned to a worker, not yet handled
    proc,         \* position of each worker / request handler
    instances,    \* flow_instances rows
    stepExecs,    \* step_executions rows, in creation order
    expectedCbs,  \* expected_callbacks rows, in creation order
    receivedCbs,  \* received_callbacks rows, in creation order
    tsqs,         \* tsq_requests rows, in creation order
    reversals,    \* reversal_requests rows, in creation order
    obs           \* observations of calls made (external requests, resumes,
                  \* parity of the timeout sweeps run)

vars == <<now, secs, flow, jobs, sel, batch, proc, instances, stepExecs,
          expectedCbs, receivedCbs, tsqs, reversals, obs>>

\* ------------------------------------------------------------ flow graphs

Step(t, cb, r) == [type |-> t, includeCallback |-> cb, max_retries |-> r]

\* An asynchronous flow whose API call is answered by a callback (the shape
\* of the seeded FT legs)
FlowAsync == [is_sync |-> FALSE,
              steps |-> << Step("START", FALSE, 0), Step("API_CALL", TRUE, 0),
                           Step("END", FALSE, 0) >>]

\* A synchronous flow answered in the API response (the seeded NEC flow)
FlowSync == [is_sync |-> TRUE,
             steps |-> << Step("START", FALSE, 0), Step("API_CALL", FALSE, 0),
                          Step("END", FALSE, 0) >>]

\* A flow that parks at a MANUAL step
FlowManual == [is_sync |-> FALSE,
               steps |-> << Step("START", FALSE, 0), Step("MANUAL", FALSE, 0),
                            Step("END", FALSE, 0) >>]

\* A synchronous flow whose last step awaits a callback
FlowSyncCallback == [is_sync |-> TRUE,
                     steps |-> << Step("START", FALSE, 0),
                                  Step("API_CALL", TRUE, 0) >>]

\* A transfer: the debit leg, the credit leg, then the task of the seeded
\* FT flow that stands for its reversal (config.taskType 'REVERSAL')
FlowTransfer == [is_sync |-> FALSE,
                 steps |-> << Step("START", FALSE, 0), Step("API_CALL", FALSE, 0),
                              Step("API_CALL", FALSE, 0), Step("TASK", FALSE, 0) >>]

Flows == {FlowAsync, FlowSync, FlowManual}

\* An unconditional transition of priority 0
Transition(a, b) == [from_step |-> a, to_step |-> b, priority |-> 0,
                     conditional |-> FALSE, equals |-> 0]

\* Flows whose last step has a transition to itself, after an API call that
\* is answered by a callback or at once
FlowCycle == [is_sync |-> FALSE,
              steps |-> << Step("START", FALSE, 0), Step("API_CALL", TRUE, 0),
                           Step("TASK", FALSE, 0) >>,
              transitions |-> << Transition(1, 2), Transition(2, 3),
                                 Transition(3, 3) >>]

FlowCycleSync == [is_sync |-> TRUE,
                  steps |-> << Step("START", FALSE, 0), Step("API_CALL", FALSE, 0),
                               Step("TASK", FALSE, 0) >>,
                  transitions |-> << Transition(1, 2), Transition(2, 3),
                                     Transition(3, 3) >>]

\* flowDef.startStep: the first step of type START
startStep(f) ==
    IF \E k \in 1..Len(f.steps) : f.steps[k].type = "START"
    THEN CHOOSE k \in 1..Len(f.steps) :
            /\ f.steps[k].type = "START"
            /\ \A m \in 1..(k-1) : f.steps[m].type # "START"
    ELSE 0

\* steps.find(s => s.step_order === currentOrder + 1): the step whose
\* step_order is the current order + 1, or none
nextByOrder(f, k) == IF k + 1 <= Len(f.steps) THEN k + 1 ELSE 0

\* flowDefinition.transitions, in the order the query returned them; a flow
\* written without transitions has none
Transitions(f) == IF "transitions" \in DOMAIN f THEN f.transitions ELSE <<>>

\* buildStepGraph: the outgoing transitions of step k
Outgoing(f, k) == SelectSeq(Transitions(f), LAMBDA t : t.from_step = k)

\* Array.prototype.sort by priority: ascending and stable
RECURSIVE sortByPriority(_, _)
sortByPriority(q, P) ==
    IF P = {} THEN <<>>
    ELSE LET m == CHOOSE x \in P : \A y \in P : x <= y
         IN SelectSeq(q, LAMBDA t : t.priority = m) \o sortByPriority(q, P \ {m})

\* What is wrong with the condition_expression of a transition: nothing, a
\* string that is no JSON ("unparsable"), or a condition whose evaluation
\* throws, such as an $and that is no array ("throws")
Malformed(t) == IF "malformed" \in DOMAIN t THEN t.malformed ELSE ""

\* evaluateTransitionCondition: a transition without condition_expression is
\* always true; safeJsonParse turns a string that is no JSON into null, which
\* counts as no condition; an evaluation that throws is caught and gives
\* false; a condition compares the followed field with a value
evaluateTransitionCondition(t, data) ==
    IF ~t.conditional THEN TRUE
    ELSE IF Malformed(t) = "unparsable" THEN TRUE
    ELSE IF Malformed(t) = "throws" THEN FALSE
    ELSE data = t.equals

\* The loop over the sorted transitions: the target of the first one whose
\* condition holds and whose target is a step of the graph
RECURSIVE firstTarget(_, _, _)
firstTarget(q, f, data) ==
    IF q = <<>> THEN 0
    ELSE IF /\ evaluateTransitionCondition(Head(q), data)
            /\ Head(q).to_step \in 1..Len(f.steps)
         THEN Head(q).to_step
         ELSE firstTarget(Tail(q), f, data)

\* step_code.includes('FAIL')
IsFail(s) == "fail" \in DOMAIN s /\ s.fail

\* steps.find(...): the first of the steps S in the order of the list, or
\* none
FirstStep(S) == IF S = {} THEN 0 ELSE CHOOSE m \in S : \A n \in S : m <= n

\* getNextStep, the CONDITION step without transitions: a failure value goes
\* to the FAIL step of the same code prefix, a success value to the next
\* step by order, any other value (or a failure value without its FAIL
\* step) to the first FAIL step of a higher order
conditionNext(f, k, data) ==
    LET st == f.steps[k]
        failOfPrefix == FirstStep({m \in 1..Len(f.steps) :
                                      IsFail(f.steps[m]) /\ f.steps[m].prefix = st.prefix})
        failAfter == FirstStep({m \in 1..Len(f.steps) : IsFail(f.steps[m]) /\ m > k})
    IN IF data \in st.failure_values /\ failOfPrefix # 0 THEN failOfPrefix
       ELSE IF data \in st.success_values THEN nextByOrder(f, k)
       ELSE failAfter

\* getNextStep with the fallback also taken when no transition is satisfied
getNextStep_AlwaysFallsBack(f, k, data) ==
    LET out == Outgoing(f, k)
        sorted == sortByPriority(out, {out[n].priority : n \in 1..Len(out)})
        hit == firstTarget(sorted, f, data)
    IN IF hit # 0 THEN hit
       ELSE IF f.steps[k].type = "CONDITION" /\ "condition_field" \in DOMAIN f.steps[k]
            THEN conditionNext(f, k, data)
            ELSE nextByOrder(f, k)

\* flowService.getNextStep: explicit transitions first, by priority; the
\* fallback by step_order only for a step without outgoing transitions;
\* otherwise no step
getNextStep(f, k, data) ==
    LET out == Outgoing(f, k)
        sorted == sortByPriority(out, {out[n].priority : n \in 1..Len(out)})
        hit == firstTarget(sorted, f, data)
    IN IF hit # 0 THEN hit
       ELSE IF Len(out) = 0
       THEN IF f.steps[k].type = "CONDITION" /\ "condition_field" \in DOMAIN f.steps[k]
            THEN conditionNext(f, k, data)
            ELSE nextByOrder(f, k)
       ELSE 0

\* ------------------------------------------------------------------ rows

\* Payloads are followed by one of their fields: its value in the request
\* of BFS, and what an API response holds for it (0: the field is absent,
\* Null: it is null, otherwise its value)
InputField == 1
ResponseFields == {0, Null, 2}

\* executeApiCallStep's merge of the response into the payload, for one
\* field: only a value that is neither null nor undefined overwrites
mergeResponse(field, resp) == IF resp # 0 /\ resp # Null THEN resp ELSE field


NewJob == [status |-> "PENDING", locked_by |-> "", locked_at |-> Null,
           attempt_number |-> 0, max_attempts |-> JobMaxAttempts,
           next_retry_at |-> Null, priority |-> 1, created_at |-> 0]

NewInstance == [status |-> "PENDING", current_step |-> 0,
                callback_sent |-> FALSE, created_at |-> 0,
                has_final |-> FALSE, last_error |-> "", needsTsq |-> FALSE,
                current_payload |-> InputField, final_response |-> 0,
                error_count |-> 0, updated_at |-> 0]

\* A worker or request handler outside any call
Idle == [pc |-> "idle", kind |-> "none", inst |-> 0, step |-> 0, se |-> 0,
         stepCount |-> 0, result |-> "none", ec |-> 0, rc |-> 0,
         job |-> 0, attempt_number |-> 0, max_attempts |-> 0,
         todo |-> <<>>, tsq |-> 0, read |-> 0, payload |-> 0, resp |-> 0,
         code |-> "none", rev |-> 0]

NoObs == [apiCalls |-> 0, resumes |-> <<>>, sweeps |-> 0]

\* ------------------------------------------------ job queue: the claim

\* Date.now() in units of the backoff (30 s): ten of them make one unit of
\* the clock (5 minutes)
Clock == now * BackoffPerUnit + secs

\* The WHERE clause of the claim's sub-select (flowExecutorJob.js:18-20)
IsReady(j) ==
    /\ jobs[j].status = "PENDING"
    /\ (jobs[j].locked_at = Null \/ jobs[j].locked_at < now - LockWindow)

\* FOR UPDATE SKIP LOCKED: a row another in-flight claim holds is skipped
Claimable_NoSkipLocked(w, j) == IsReady(j)

Claimable(w, j) ==
    /\ IsReady(j)
    /\ \A o \in Workers \ {w} : j \notin sel[o]

\* ORDER BY priority DESC, created_at ASC (ids stand for creation order)
Before(a, b) ==
    \/ jobs[a].priority > jobs[b].priority
    \/ jobs[a].priority = jobs[b].priority /\ jobs[a].created_at < jobs[b].created_at
    \/ jobs[a].priority = jobs[b].priority /\ jobs[a].created_at = jobs[b].created_at /\ a < b

\* LIMIT n of the ordered candidates
TakeFirst(S, n) == {j \in S : Cardinality({o \in S : Before(o, j)}) < n}

RECURSIVE OrderedSeq(_)
OrderedSeq(S) ==
    IF S = {} THEN <<>>
    ELSE LET h == CHOOSE j \in S : \A o \in S \ {j} : Before(j, o)
         IN <<h>> \o OrderedSeq(S \ {h})

\* A row lock taken by an in-flight claim makes other writers of the row wait
RowLocked(j) == \E o \in Workers : j \in sel[o]

\* The sub-select of the claim takes its row locks
ClaimSelect(w) ==
    /\ proc[w].pc = "idle" /\ batch[w] = <<>> /\ sel[w] = {}
    /\ LET picks == TakeFirst({j \in JobIds : Claimable(w, j)}, BatchLimit)
       IN /\ picks # {}
          /\ sel' = [sel EXCEPT ![w] = picks]
    /\ UNCHANGED <<secs, reversals, now, flow, jobs, batch, proc, instances, stepExecs,
                   expectedCbs, receivedCbs, tsqs, obs>>

\* The UPDATE marks the selected rows and RETURNING * hands them to the worker
ClaimUpdate(w) ==
    /\ sel[w] # {}
    /\ jobs' = [j \in JobIds |->
                  IF j \in sel[w]
                  THEN [jobs[j] EXCEPT !.status = "PROCESSING",
                                       !.locked_at = now, !.locked_by = w]
                  ELSE jobs[j]]
    /\ batch' = [batch EXCEPT ![w] =
                   [k \in 1..Cardinality(sel[w]) |->
                      [id |-> OrderedSeq(sel[w])[k],
                       attempt_number |-> jobs[OrderedSeq(sel[w])[k]].attempt_number,
                       max_attempts |-> jobs[OrderedSeq(sel[w])[k]].max_attempts]]]
    /\ sel' = [sel EXCEPT ![w] = {}]
    /\ UNCHANGED <<secs, reversals, now, flow, proc, instances, stepExecs,
                   expectedCbs, receivedCbs, tsqs, obs>>

\* -------------------------------------------- job queue: running a job

\* A call of executeFlowInstance by process p: the instance is marked RUNNING
\* whatever its status was, and the loop starts from the START step
EnterFlow(p, i, k, rec) ==
    /\ instances' = [instances EXCEPT ![i].status = "RUNNING"]
    /\ proc' = [proc EXCEPT ![p] =
                  [rec EXCEPT !.pc = "loop", !.kind = k, !.inst = i,
                              !.step = startStep(flow), !.stepCount = 0,
                              !.payload = instances[i].current_payload]]

\* The payload column of a job: an object, or a string that is no JSON
JobPayload(j) == IF "payload" \in DOMAIN jobs[j] THEN jobs[j].payload ELSE "object"

\* The worker takes the next job of its batch and calls executeFlowInstance;
\* a payload that names no instance makes the call throw.  A payload that
\* cannot be parsed throws in the try and again in the catch, where the log
\* call parses it once more: the error leaves the loop and the run returns
\* with this job and the rest of its batch untouched
JobStart(w) ==
    /\ proc[w].pc = "idle" /\ batch[w] # <<>>
    /\ LET job == Head(batch[w])
           rec == [Idle EXCEPT !.job = job.id,
                               !.attempt_number = job.attempt_number,
                               !.max_attempts = job.max_attempts]
       IN IF JobPayload(job.id) = "unparsable"
          THEN /\ batch' = [batch EXCEPT ![w] = <<>>]
               /\ UNCHANGED <<proc, instances>>
          ELSE /\ batch' = [batch EXCEPT ![w] = Tail(batch[w])]
               /\ IF JobInst(job.id) = 0
                  THEN /\ proc' = [proc EXCEPT ![w] = [rec EXCEPT !.pc = "job_catch",
                                                                  !.kind = "job"]]
                       /\ UNCHANGED instances
                  ELSE EnterFlow(w, JobInst(job.id), "job", rec)
    /\ UNCHANGED <<secs, reversals, now, flow, jobs, sel, stepExecs, expectedCbs,
                   receivedCbs, tsqs, obs>>

\* executeFlowInstance returned: the job row is marked COMPLETED
JobComplete(w) ==
    /\ proc[w].pc = "job_done"
    /\ ~RowLocked(proc[w].job)
    /\ jobs' = [jobs EXCEPT ![proc[w].job].status = "COMPLETED"]
    /\ proc' = [proc EXCEPT ![w] = Idle]
    /\ UNCHANGED <<secs, reversals, now, flow, sel, batch, instances, stepExecs, expectedCbs,
                   receivedCbs, tsqs, obs>>

\* executeFlowInstance threw: retry the job or fail it and its instance
JobCatch(w) ==
    /\ proc[w].pc = "job_catch"
    /\ ~RowLocked(proc[w].job)
    /\ LET j == proc[w].job
           attemptNumber == proc[w].attempt_number + 1
           maxAttempts == IF proc[w].max_attempts = 0 THEN JobMaxAttempts
                          ELSE proc[w].max_attempts
       IN IF attemptNumber < maxAttempts
          THEN /\ jobs' = [jobs EXCEPT ![j].status = "PENDING",
                                       ![j].attempt_number = attemptNumber,
                                       ![j].locked_at = Null,
                                       ![j].locked_by = "",
                                       ![j].next_retry_at =
                                            Clock + attemptNumber]
               /\ UNCHANGED instances
          ELSE /\ jobs' = [jobs EXCEPT ![j].status = "FAILED",
                                       ![j].attempt_number = attemptNumber]
               /\ instances' = [i \in Insts |->
                     IF i = JobInst(j)
                     THEN [instances[i] EXCEPT !.status = "FAILED",
                                               !.last_error = "job attempts"]
                     ELSE instances[i]]
    /\ proc' = [proc EXCEPT ![w] = Idle]
    /\ UNCHANGED <<secs, reversals, now, flow, sel, batch, stepExecs, expectedCbs,
                   receivedCbs, tsqs, obs>>

\* cleanupStaleJobs: release leases older than the threshold, then purge
\* finished jobs past the retention period
cleanupStaleJobs ==
    /\ jobs' = [j \in JobIds |->
                  IF jobs[j].status = "PROCESSING" /\ jobs[j].locked_at < now - StaleLease
                  THEN [jobs[j] EXCEPT !.status = "PENDING", !.locked_at = Null,
                                       !.locked_by = ""]
                  ELSE IF jobs[j].status \in {"COMPLETED", "FAILED"}
                          /\ jobs[j].created_at < now - JobRetention
                       THEN [jobs[j] EXCEPT !.status = "DELETED"]
                       ELSE jobs[j]]
    /\ jobs' # jobs
    /\ UNCHANGED <<secs, reversals, now, flow, sel, batch, proc, instances, stepExecs,
                   expectedCbs, receivedCbs, tsqs, obs>>

\* The database clock advances
Tick ==
    /\ now < MaxTime
    /\ now' = now + 1
    /\ secs' = 0
    /\ UNCHANGED <<reversals, flow, jobs, sel, batch, proc, instances, stepExecs,
                   expectedCbs, receivedCbs, tsqs, obs>>

\* --------------------------------------------- the step-execution loop

\* Calls that run under executeFlowInstance's catch, which marks the
\* instance FAILED; a resume after a callback has no such catch
UnderExecuteFlowInstance(k) == k \in {"job", "manual", "sync"}

\* The run of process p is over: a worker goes on to its job row, a
\* synchronous request goes on to its answer unless the run threw, any other
\* request handler returns
Return(p, threw) ==
    IF proc[p].kind = "job"
    THEN [proc[p] EXCEPT !.pc = IF threw THEN "job_catch" ELSE "job_done",
                         !.payload = 0, !.resp = 0, !.code = "none"]
    ELSE IF proc[p].kind = "sync" /\ ~threw
    THEN [Idle EXCEPT !.pc = "sync_done", !.kind = "sync", !.inst = proc[p].inst]
    ELSE Idle

\* A transfer of two legs answered in their API responses
FlowRerun == [is_sync |-> FALSE,
              steps |-> << Step("START", FALSE, 0), Step("API_CALL", FALSE, 0),
                           Step("API_CALL", FALSE, 0), Step("END", FALSE, 0) >>]

\* Rows the step_executions table holds at most: a run of a cyclic flow is
\* followed up to the ceiling of the loop, a job that runs again has room
\* for the first steps of its second run
RowLimit == IF flow \in {FlowCycle, FlowCycleSync} THEN maxSteps + MaxStepExecs
            ELSE IF flow = FlowRerun THEN MaxStepExecs + 1
            ELSE MaxStepExecs

\* Head of the loop of executeFromStep: count the step and create its
\* StepExecution record as RUNNING
StepBegin(p) ==
    /\ proc[p].pc = "loop"
    /\ IF proc[p].step # 0 /\ proc[p].stepCount < maxSteps
       THEN /\ Len(stepExecs) < RowLimit
            /\ stepExecs' = Append(stepExecs,
                    [inst |-> proc[p].inst, step |-> proc[p].step,
                     status |-> "RUNNING", attempt_number |-> 1,
                     actionCode |-> "none"])
            /\ proc' = [proc EXCEPT ![p].pc = "exec",
                                    ![p].stepCount = proc[p].stepCount + 1,
                                    ![p].se = Len(stepExecs) + 1]
            /\ UNCHANGED instances
       ELSE \* the loop is left: over the ceiling it throws
            /\ UNCHANGED stepExecs
            /\ IF proc[p].stepCount >= maxSteps
               THEN /\ proc' = [proc EXCEPT ![p] = Return(p, TRUE)]
                    /\ instances' =
                         IF UnderExecuteFlowInstance(proc[p].kind)
                         THEN [instances EXCEPT ![proc[p].inst].status = "FAILED",
                                                ![proc[p].inst].last_error = "step limit"]
                         ELSE instances
               ELSE /\ proc' = [proc EXCEPT ![p] = Return(p, FALSE)]
                    /\ UNCHANGED instances
    /\ UNCHANGED <<secs, reversals, now, flow, jobs, sel, batch, expectedCbs, receivedCbs,
                   tsqs, obs>>

\* Action codes an API response carries ("" stands for a response without
\* one)
ApiActionCodes == {"000", "909", "999", ""}

\* helpers.shouldTriggerTsq: no code, a listed code, or a code that starts
\* with 9 other than 999
shouldTriggerTsq(c) ==
    \/ c = ""
    \/ c \in {"909", "912", "990", "108"}
    \/ (c \in {"909", "912", "990", "999"} /\ c # "999")

\* An ExpectedCallback created with the default status of the table
NewExpected_DefaultStatus(p) ==
    [inst |-> proc[p].inst, se |-> proc[p].se, session |-> proc[p].inst,
     status |-> "WAITING", expected_by |-> now + CallbackTimeout]

\* An ExpectedCallback registered for the step execution of process p
NewExpected(p) ==
    [inst |-> proc[p].inst, se |-> proc[p].se, session |-> proc[p].inst,
     status |-> "PENDING", expected_by |-> now + CallbackTimeout]

\* executeStep: dispatch on the step type.  An API call is sent and either
\* answers or fails; a step that awaits a callback registers its
\* ExpectedCallback
StepExec(p) ==
    /\ proc[p].pc = "exec"
    /\ LET st == flow.steps[proc[p].step]
       IN \/ /\ st.type = "API_CALL"
             /\ obs' = [obs EXCEPT !.apiCalls = obs.apiCalls + 1]
             /\ \/ /\ st.includeCallback
                   /\ expectedCbs' = Append(expectedCbs, NewExpected(p))
                   /\ \E r \in ResponseFields :
                        proc' = [proc EXCEPT ![p].pc = "finish",
                                             ![p].result = "callback",
                                             ![p].resp = r,
                                             ![p].payload =
                                                mergeResponse(proc[p].payload, r)]
                \/ /\ ~st.includeCallback
                   /\ \E c \in ApiActionCodes : \E r \in ResponseFields :
                        proc' = [proc EXCEPT ![p].pc = "finish",
                                             ![p].result =
                                                IF shouldTriggerTsq(c)
                                                THEN "done_tsq" ELSE "done",
                                             ![p].code = c,
                                             ![p].resp = r,
                                             ![p].payload =
                                                mergeResponse(proc[p].payload, r)]
                   /\ UNCHANGED expectedCbs
                \/ /\ proc' = [proc EXCEPT ![p].pc = "catch"]
                   /\ UNCHANGED expectedCbs
          \/ /\ st.type \in {"CALLBACK", "LISTENER"}
             /\ expectedCbs' = Append(expectedCbs, NewExpected(p))
             /\ proc' = [proc EXCEPT ![p].pc = "finish", ![p].result = "callback"]
             /\ UNCHANGED obs
          \/ /\ st.type = "MANUAL"
             /\ proc' = [proc EXCEPT ![p].pc = "finish", ![p].result = "manual"]
             /\ UNCHANGED <<expectedCbs, obs>>
          \/ /\ st.type \notin {"API_CALL", "CALLBACK", "LISTENER", "MANUAL"}
             /\ proc' = [proc EXCEPT ![p].pc = "finish", ![p].result = "done"]
             /\ UNCHANGED <<expectedCbs, obs>>
    /\ UNCHANGED <<secs, reversals, now, flow, jobs, sel, batch, instances, stepExecs,
                   receivedCbs, tsqs>>

\* After executeStep returned: record the step's status, then suspend,
\* move to the next step, or complete the instance
StepFinish(p) ==
    /\ proc[p].pc = "finish"
    /\ LET i == proc[p].inst
           seDone == [stepExecs EXCEPT ![proc[p].se].status =
                         IF proc[p].result \in {"done", "done_tsq"}
                         THEN "COMPLETED" ELSE "WAITING",
                                       ![proc[p].se].actionCode = proc[p].code]
           tsq == instances[i].needsTsq \/ proc[p].result = "done_tsq"
           next == getNextStep(flow, proc[p].step, proc[p].payload)
       IN IF proc[p].result = "callback"
          THEN /\ stepExecs' = seDone
               /\ instances' = [instances EXCEPT ![i].current_step = proc[p].step,
                                                 ![i].current_payload = proc[p].payload,
                                                 ![i].status = "WAITING_CALLBACK"]
               /\ proc' = [proc EXCEPT ![p] = Return(p, FALSE)]
          ELSE IF proc[p].result = "manual"
          THEN /\ stepExecs' = seDone
               /\ instances' = [instances EXCEPT ![i].current_step = proc[p].step,
                                                 ![i].current_payload = proc[p].payload,
                                                 ![i].status = "MANUAL_INTERVENTION"]
               /\ proc' = [proc EXCEPT ![p] = Return(p, FALSE)]
          ELSE IF next = 0 \/ flow.steps[next].type = "END"
          THEN /\ stepExecs' =
                    IF next # 0
                    THEN Append(seDone, [inst |-> i, step |-> next,
                                         status |-> "COMPLETED",
                                         attempt_number |-> 1,
                                         actionCode |-> "none"])
                    ELSE seDone
               /\ Len(stepExecs') <= RowLimit
               /\ instances' = [instances EXCEPT ![i].current_step = proc[p].step,
                                                 ![i].needsTsq = tsq,
                                                 ![i].current_payload = proc[p].payload,
                                                 ![i].final_response = proc[p].payload,
                                                 ![i].status = "COMPLETED",
                                                 ![i].has_final = TRUE,
                                                 ![i].callback_sent = flow.is_sync]
               /\ proc' = [proc EXCEPT ![p] = Return(p, FALSE)]
          ELSE /\ stepExecs' = seDone
               /\ instances' = [instances EXCEPT ![i].current_step = proc[p].step,
                                                 ![i].current_payload = proc[p].payload,
                                                 ![i].needsTsq = tsq]
               /\ proc' = [proc EXCEPT ![p].pc = "loop", ![p].step = next,
                                       ![p].result = "none", ![p].resp = 0,
                                       ![p].code = "none"]
    /\ UNCHANGED <<secs, reversals, now, flow, jobs, sel, batch, expectedCbs, receivedCbs,
                   tsqs, obs>>

\* The catch of the loop: the step execution is FAILED; the step is tried
\* again while its record's attempt_number is below max_retries, otherwise
\* the error leaves the loop (and executeFlowInstance marks the instance)
StepCatch(p) ==
    /\ proc[p].pc = "catch"
    /\ LET i == proc[p].inst
           se == proc[p].se
           st == flow.steps[proc[p].step]
       IN IF stepExecs[se].attempt_number < st.max_retries
          THEN /\ stepExecs' = [stepExecs EXCEPT
                                  ![se].status = "FAILED",
                                  ![se].attempt_number = stepExecs[se].attempt_number + 1]
               /\ proc' = [proc EXCEPT ![p].pc = "loop"]
               /\ UNCHANGED instances
          ELSE /\ stepExecs' = [stepExecs EXCEPT ![se].status = "FAILED"]
               /\ proc' = [proc EXCEPT ![p] = Return(p, TRUE)]
               /\ instances' =
                    IF UnderExecuteFlowInstance(proc[p].kind)
                    THEN [instances EXCEPT ![i].status = "FAILED",
                                           ![i].last_error = "step failed"]
                    ELSE instances
    /\ UNCHANGED <<secs, reversals, now, flow, jobs, sel, batch, expectedCbs, receivedCbs,
                   tsqs, obs>>

\* ------------------------------------------------------------- callbacks

\* findOne over expected_callbacks: some row that satisfies the filter (the
\* query has no ORDER BY), or 0 when there is none
Found(S) == IF S = {} THEN {0} ELSE S

PendingFor(s) == {e \in 1..Len(expectedCbs) :
                    expectedCbs[e].session = s /\ expectedCbs[e].status = "PENDING"}

\* processIncomingCallback, first part: store the callback and look up a
\* PENDING expectation of its session; without one the callback stays
\* unprocessed
ReceiveCallback(h, s) ==
    /\ proc[h].pc = "idle"
    /\ Len(receivedCbs) < MaxCallbacks
    /\ receivedCbs' = Append(receivedCbs, [session |-> s, processed |-> FALSE])
    /\ \E e \in Found(PendingFor(s)) :
         proc' = [proc EXCEPT ![h] =
                    IF e = 0 THEN Idle
                    ELSE [Idle EXCEPT !.pc = "matched", !.kind = "callback",
                                      !.ec = e, !.rc = Len(receivedCbs) + 1]]
    /\ UNCHANGED <<secs, reversals, now, flow, jobs, sel, batch, instances, stepExecs,
                   expectedCbs, tsqs, obs>>

\* processIncomingCallback, second part: the expectation found is marked
\* MATCHED and the received callback processed, then the flow is resumed
MatchCallback(h) ==
    /\ proc[h].pc = "matched"
    /\ expectedCbs' = [expectedCbs EXCEPT ![proc[h].ec].status = "MATCHED"]
    /\ receivedCbs' = [receivedCbs EXCEPT ![proc[h].rc].processed = TRUE]
    /\ proc' = [proc EXCEPT ![h].pc = "resume",
                            ![h].inst = expectedCbs[proc[h].ec].inst,
                            ![h].se = expectedCbs[proc[h].ec].se]
    /\ UNCHANGED <<secs, reversals, now, flow, jobs, sel, batch, instances, stepExecs, tsqs, obs>>

\* processCallbackForStep: the callback was sent to the URL of a step
\* execution that registered an expectation; the expectation is marked
\* MATCHED unless it already is, and the flow is resumed in either case
processCallbackForStep(h, se) ==
    /\ proc[h].pc = "idle"
    /\ Len(receivedCbs) < MaxCallbacks
    /\ \E x \in 1..Len(expectedCbs) : expectedCbs[x].se = se
    /\ receivedCbs' = Append(receivedCbs,
                             [session |-> stepExecs[se].inst, processed |-> TRUE])
    /\ \E e \in Found({x \in 1..Len(expectedCbs) :
                          expectedCbs[x].inst = stepExecs[se].inst
                          /\ expectedCbs[x].se = se}) :
         expectedCbs' = IF e # 0 /\ expectedCbs[e].status # "MATCHED"
                        THEN [expectedCbs EXCEPT ![e].status = "MATCHED"]
                        ELSE expectedCbs
    /\ proc' = [proc EXCEPT ![h] = [Idle EXCEPT !.pc = "resume",
                                               !.kind = "callback",
                                               !.inst = stepExecs[se].inst,
                                               !.se = se]]
    /\ UNCHANGED <<secs, reversals, now, flow, jobs, sel, batch, instances, stepExecs, tsqs, obs>>

\* retryUnmatchedCallbacks, one round of its loop: an unprocessed received
\* callback finds a PENDING expectation of its session, both are marked and
\* the flow is resumed
retryUnmatchedCallbacks(h, r) ==
    /\ proc[h].pc = "idle"
    /\ r \in 1..Len(receivedCbs)
    /\ ~receivedCbs[r].processed
    /\ \E e \in PendingFor(receivedCbs[r].session) :
         /\ expectedCbs' = [expectedCbs EXCEPT ![e].status = "MATCHED"]
         /\ proc' = [proc EXCEPT ![h] = [Idle EXCEPT !.pc = "resume",
                                                    !.kind = "callback",
                                                    !.inst = expectedCbs[e].inst,
                                                    !.se = expectedCbs[e].se,
                                                    !.ec = e, !.rc = r]]
    /\ receivedCbs' = [receivedCbs EXCEPT ![r].processed = TRUE]
    /\ UNCHANGED <<secs, reversals, now, flow, jobs, sel, batch, instances, stepExecs, tsqs, obs>>

\* resumeAfterCallback: the step execution is COMPLETED and the instance
\* RUNNING, whatever their status was; without a next step the instance is
\* COMPLETED, otherwise the loop continues from the next step
resumeAfterCallback(h) ==
    /\ proc[h].pc = "resume"
    /\ LET i == proc[h].inst
           next == getNextStep(flow, stepExecs[proc[h].se].step,
                               instances[i].current_payload)
       IN /\ stepExecs' = [stepExecs EXCEPT ![proc[h].se].status = "COMPLETED"]
          /\ obs' = [obs EXCEPT !.resumes = Append(obs.resumes, proc[h].se)]
          /\ IF next = 0
             THEN /\ instances' = [instances EXCEPT
                                      ![i].status = "COMPLETED",
                                      ![i].has_final = TRUE,
                                      ![i].final_response = instances[i].current_payload]
                  /\ proc' = [proc EXCEPT ![h] = Idle]
             ELSE /\ instances' = [instances EXCEPT ![i].status = "RUNNING"]
                  /\ proc' = [proc EXCEPT ![h].pc = "loop", ![h].step = next,
                                          ![h].stepCount = 0,
                                          ![h].payload = instances[i].current_payload]
    /\ UNCHANGED <<secs, reversals, now, flow, jobs, sel, batch, expectedCbs, receivedCbs, tsqs>>

\* ------------------------------------------------- operator's requests

\* cancelFlowInstance: refused for COMPLETED, CANCELLED and FAILED
cancelFlowInstance(h, i) ==
    /\ proc[h].pc = "idle"
    /\ instances[i].status \notin {"COMPLETED", "CANCELLED", "FAILED"}
    /\ instances' = [instances EXCEPT ![i].status = "CANCELLED"]
    /\ UNCHANGED <<secs, reversals, now, flow, jobs, sel, batch, proc, stepExecs, expectedCbs,
                   receivedCbs, tsqs, obs>>

\* retryFlowInstance: any instance, whatever its status, is set RUNNING and
\* executed again from the START step
retryFlowInstance(h, i) ==
    /\ proc[h].pc = "idle"
    /\ EnterFlow(h, i, "manual", Idle)
    /\ UNCHANGED <<secs, reversals, now, flow, jobs, sel, batch, stepExecs, expectedCbs,
                   receivedCbs, tsqs, obs>>

\* resumeFlowInstance: only from MANUAL_INTERVENTION; the instance is set
\* RUNNING and executed again from the START step
resumeFlowInstance(h, i) ==
    /\ proc[h].pc = "idle"
    /\ instances[i].status = "MANUAL_INTERVENTION"
    /\ EnterFlow(h, i, "manual", Idle)
    /\ UNCHANGED <<secs, reversals, now, flow, jobs, sel, batch, stepExecs, expectedCbs,
                   receivedCbs, tsqs, obs>>

\* ------------------------------------------------------------------ TSQ

\* Answers of the switch to a status query: actionCode/approvalCode pairs
\* of each class of evaluateTsqResponse, and a request that fails
TsqAnswers == {"000/000", "381", "000/381", "999", "000/990", "100", "error"}

Indeterminate == {"381", "000/381", "000/990"}

actionCode(a) == IF a \in {"000/000", "000/381", "000/990"} THEN "000" ELSE a
approvalCode(a) == IF a = "000/000" THEN "000"
                   ELSE IF a = "000/381" THEN "381"
                   ELSE IF a = "000/990" THEN "990" ELSE ""

Verdict(st, retry, final) == [status |-> st, shouldRetry |-> retry, finalResult |-> final]

evaluateTsqResponse(ac, ap, retryCount) ==
    IF ac = "000" /\ ap # "" /\ ap \notin {"381", "990"}
    THEN Verdict("SUCCESS", FALSE, "SUCCESS")
    ELSE IF ac = "381" \/ (ac = "000" /\ ap = "381")
    THEN IF retryCount >= MAX_TSQ_RETRIES
         THEN Verdict("NOT_FOUND", FALSE, "NOT_FOUND")
         ELSE Verdict("PENDING", TRUE, "")
    ELSE IF ac = "999"
    THEN Verdict("FAILED", FALSE, "VALIDATION_ERROR")
    ELSE IF ac = "000" /\ ap = "990"
    THEN IF retryCount >= MAX_TSQ_RETRIES
         THEN Verdict("PENDING", FALSE, "MANUAL_CHECK_REQUIRED")
         ELSE Verdict("PENDING", TRUE, "")
    ELSE Verdict("FAILED", FALSE, "FAILED")

\* createTsqRequest: the row starts PENDING with attempt_number 1 and its
\* first retry time one interval ahead.  queries and answers are
\* observations: the status queries sent for the row and whether every
\* answer so far was indeterminate.  answer holds the action_code and
\* approval_code stored from the last response, classified counts the
\* responses that were evaluated
createTsqRequest(i) ==
    Append(tsqs, [inst |-> i, status |-> "PENDING", attempt_number |-> 1,
                  max_attempts |-> MAX_TSQ_RETRIES,
                  next_retry_at |-> now + TSQ_RETRY_INTERVAL,
                  result_status |-> "", queries |-> 0, indeterminate |-> TRUE,
                  answer |-> "", classified |-> 0])

\* WHERE status = 'PENDING' AND next_retry_at <= NOW()
IsDue(t) ==
    /\ tsqs[t].status = "PENDING"
    /\ tsqs[t].next_retry_at # Null
    /\ tsqs[t].next_retry_at <= now

\* ORDER BY next_retry_at ASC (ids stand for creation order)
TsqBefore(a, b) ==
    \/ tsqs[a].next_retry_at < tsqs[b].next_retry_at
    \/ tsqs[a].next_retry_at = tsqs[b].next_retry_at /\ a < b

RECURSIVE TsqOrdered(_)
TsqOrdered(S) ==
    IF S = {} THEN <<>>
    ELSE LET h == CHOOSE t \in S : \A o \in S \ {t} : TsqBefore(t, o)
         IN << [id |-> h, attempt_number |-> tsqs[h].attempt_number,
                max_attempts |-> tsqs[h].max_attempts] >> \o TsqOrdered(S \ {h})

FirstN(q, n) == SubSeq(q, 1, IF Len(q) < n THEN Len(q) ELSE n)

\* executeTsqRequest returned or threw to its caller: the service loop goes
\* on with its list either way, the scheduler job reads result.status and so
\* fails on a null result as on a throw, a request handler answers
TsqReturn(p, rec, failed) ==
    IF p = TsqJob /\ failed
    THEN [rec EXCEPT !.pc = "tsqjob_catch", !.read = 0]
    ELSE IF p \in {TsqLoop, TsqJob}
         THEN [Idle EXCEPT !.pc = "tsq_next", !.kind = "tsq", !.todo = rec.todo]
         ELSE Idle

\* executeTsqRequest, entry: read the row; a row that is not PENDING makes it
\* return null
TsqEnter(p, rec, t) ==
    IF tsqs[t].status # "PENDING"
    THEN TsqReturn(p, [rec EXCEPT !.tsq = t], TRUE)
    ELSE [rec EXCEPT !.pc = "tsq_write", !.tsq = t,
                     !.read = tsqs[t].attempt_number]

\* tsqService.processPendingTsqRequests: list the PENDING rows that are due
\* and below their maximum
TsqLoopSelect ==
    /\ proc[TsqLoop].pc = "idle"
    /\ LET due == {t \in 1..Len(tsqs) :
                     IsDue(t) /\ tsqs[t].attempt_number < tsqs[t].max_attempts}
       IN /\ due # {}
          /\ proc' = [proc EXCEPT ![TsqLoop] =
                        [Idle EXCEPT !.pc = "tsq_next", !.kind = "tsq",
                                     !.todo = FirstN(TsqOrdered(due), TsqLoopLimit)]]
    /\ UNCHANGED <<secs, reversals, now, flow, jobs, sel, batch, instances, stepExecs,
                   expectedCbs, receivedCbs, tsqs, obs>>

\* tsqSchedulerJob.processPendingTsqRequests: mark the due PENDING rows
\* PROCESSING in one statement and keep the returned rows
TsqJobClaim ==
    /\ proc[TsqJob].pc = "idle"
    /\ LET due == {t \in 1..Len(tsqs) : IsDue(t)}
           got == FirstN(TsqOrdered(due), TsqJobLimit)
       IN /\ due # {}
          /\ tsqs' = [t \in 1..Len(tsqs) |->
                        IF \E k \in 1..Len(got) : got[k].id = t
                        THEN [tsqs[t] EXCEPT !.status = "PROCESSING"]
                        ELSE tsqs[t]]
          /\ proc' = [proc EXCEPT ![TsqJob] =
                        [Idle EXCEPT !.pc = "tsq_next", !.kind = "tsq",
                                     !.todo = got]]
    /\ UNCHANGED <<secs, reversals, now, flow, jobs, sel, batch, instances, stepExecs,
                   expectedCbs, receivedCbs, obs>>

\* Either loop takes the next row of its list and calls executeTsqRequest
TsqNext(p) ==
    /\ proc[p].pc = "tsq_next"
    /\ IF proc[p].todo = <<>>
       THEN proc' = [proc EXCEPT ![p] = Idle]
       ELSE LET row == Head(proc[p].todo)
            IN proc' = [proc EXCEPT ![p] =
                   TsqEnter(p, [proc[p] EXCEPT !.todo = Tail(proc[p].todo),
                                               !.attempt_number = row.attempt_number,
                                               !.max_attempts = row.max_attempts],
                            row.id)]
    /\ UNCHANGED <<secs, reversals, now, flow, jobs, sel, batch, instances, stepExecs,
                   expectedCbs, receivedCbs, tsqs, obs>>

\* initiateTsq: the operator creates a TSQ row and executes it at once
initiateTsq(h, i) ==
    /\ proc[h].pc = "idle"
    /\ Len(tsqs) < MaxTsq
    /\ tsqs' = createTsqRequest(i)
    /\ proc' = [proc EXCEPT ![h] =
                  [Idle EXCEPT !.pc = "tsq_write", !.kind = "tsq",
                               !.tsq = Len(tsqs) + 1, !.read = 1]]
    /\ UNCHANGED <<secs, reversals, now, flow, jobs, sel, batch, instances, stepExecs,
                   expectedCbs, receivedCbs, obs>>

\* scheduleTsqForIndeterminateResponses: an instance that has waited for its
\* callback longer than the threshold and has no TSQ row gets one
scheduleTsqForIndeterminateResponses ==
    /\ Len(tsqs) < MaxTsq
    /\ \E i \in Insts :
         /\ instances[i].status = "WAITING_CALLBACK"
         /\ instances[i].created_at < now - IndeterminateAge
         /\ \A t \in 1..Len(tsqs) : tsqs[t].inst # i
         /\ tsqs' = createTsqRequest(i)
    /\ UNCHANGED <<secs, reversals, now, flow, jobs, sel, batch, proc, instances, stepExecs,
                   expectedCbs, receivedCbs, obs>>

\* executeTsqRequest, after the status check: the row becomes IN_PROGRESS
\* with the attempt read plus one; then the query is sent, unless the GIP
\* configuration is missing and the call throws
TsqSend(p) ==
    /\ proc[p].pc = "tsq_write"
    /\ LET t == proc[p].tsq
       IN /\ tsqs' = [tsqs EXCEPT ![t].status = "IN_PROGRESS",
                                  ![t].attempt_number = proc[p].read + 1,
                                  ![t].queries = tsqs[t].queries + 1]
          /\ proc' = [proc EXCEPT ![p].pc = "tsq_sent"]
    /\ UNCHANGED <<secs, reversals, now, flow, jobs, sel, batch, instances, stepExecs,
                   expectedCbs, receivedCbs, obs>>

TsqNoConfig(p) ==
    /\ proc[p].pc = "tsq_write"
    /\ LET t == proc[p].tsq
       IN /\ tsqs' = [tsqs EXCEPT ![t].status = "IN_PROGRESS",
                                  ![t].attempt_number = proc[p].read + 1]
          /\ proc' = [proc EXCEPT ![p] = TsqReturn(p, proc[p], TRUE)]
    /\ UNCHANGED <<secs, reversals, now, flow, jobs, sel, batch, instances, stepExecs,
                   expectedCbs, receivedCbs, obs>>

TsqWrite(p) == TsqSend(p) \/ TsqNoConfig(p)

\* The catch of executeTsqRequest: retry while the attempt read plus one is
\* below the maximum, otherwise FAILED
TsqFailed(t, read) ==
    IF read + 1 < MAX_TSQ_RETRIES
    THEN [tsqs[t] EXCEPT !.status = "PENDING",
                         !.next_retry_at = now + TSQ_RETRY_INTERVAL,
                         !.indeterminate = FALSE]
    ELSE [tsqs[t] EXCEPT !.status = "FAILED", !.next_retry_at = Null,
                         !.indeterminate = FALSE]

\* updateInstanceFromTsq without the MANUAL_CHECK_REQUIRED case
updateInstanceFromTsq_NoManualCheck(i, final) ==
    IF final = "SUCCESS"
    THEN [instances EXCEPT ![i].status = "COMPLETED"]
    ELSE IF final \in {"FAILED", "NOT_FOUND"}
    THEN [instances EXCEPT ![i].status = "FAILED"]
    ELSE instances

\* updateInstanceFromTsq: the instance's status by the final result
updateInstanceFromTsq(i, final) ==
    IF final = "SUCCESS"
    THEN [instances EXCEPT ![i].status = "COMPLETED"]
    ELSE IF final \in {"FAILED", "NOT_FOUND"}
    THEN [instances EXCEPT ![i].status = "FAILED"]
    ELSE IF final = "MANUAL_CHECK_REQUIRED"
    THEN [instances EXCEPT ![i].status = "MANUAL_INTERVENTION"]
    ELSE instances

\* executeTsqRequest, the answer: a failed request goes to the catch; an
\* answer is classified, stored with the next retry time, and applied to the
\* instance; the result callback to BFS is sent, is not configured, or
\* fails, and its failure also goes to the catch
TsqAnswer(p, a) ==
    /\ proc[p].pc = "tsq_sent"
    /\ LET t == proc[p].tsq
           i == tsqs[t].inst
           v == evaluateTsqResponse(actionCode(a), approvalCode(a), proc[p].read + 1)
           stored == [tsqs[t] EXCEPT
                        !.status = v.status,
                        !.result_status = IF v.finalResult # "" THEN v.finalResult
                                          ELSE v.status,
                        !.next_retry_at = IF v.shouldRetry
                                          THEN now + TSQ_RETRY_INTERVAL ELSE Null,
                        !.indeterminate = tsqs[t].indeterminate /\ a \in Indeterminate,
                        !.answer = a,
                        !.classified = tsqs[t].classified + 1]
       IN IF a = "error"
          THEN /\ tsqs' = [tsqs EXCEPT ![t] = TsqFailed(t, proc[p].read)]
               /\ proc' = [proc EXCEPT ![p] = TsqReturn(p, proc[p], TRUE)]
               /\ UNCHANGED instances
          ELSE \E bfs \in {"sent", "none", "failed"} :
                 IF v.finalResult \in {"SUCCESS", "FAILED", "NOT_FOUND"} /\ bfs # "none"
                 THEN IF bfs = "sent"
                      THEN /\ tsqs' = [tsqs EXCEPT ![t] = stored]
                           /\ instances' =
                                [updateInstanceFromTsq(i, v.finalResult)
                                   EXCEPT ![i].callback_sent = TRUE]
                           /\ proc' = [proc EXCEPT ![p] = TsqReturn(p, proc[p], FALSE)]
                      ELSE /\ tsqs' = [tsqs EXCEPT ![t] =
                                         [TsqFailed(t, proc[p].read) EXCEPT
                                            !.result_status = stored.result_status,
                                            !.answer = a,
                                            !.classified = stored.classified]]
                           /\ instances' = updateInstanceFromTsq(i, v.finalResult)
                           /\ proc' = [proc EXCEPT ![p] = TsqReturn(p, proc[p], TRUE)]
                 ELSE /\ bfs = "none"
                      /\ tsqs' = [tsqs EXCEPT ![t] = stored]
                      /\ instances' = updateInstanceFromTsq(i, v.finalResult)
                      /\ proc' = [proc EXCEPT ![p] = TsqReturn(p, proc[p], FALSE)]
    /\ UNCHANGED <<secs, reversals, now, flow, jobs, sel, batch, stepExecs, expectedCbs,
                   receivedCbs, obs>>

\* The catch of the scheduler job: the attempt of the claimed row plus one is
\* written; below the maximum the row is retried, otherwise it is FAILED and
\* its instance goes to MANUAL_INTERVENTION
TsqJobCatch ==
    /\ proc[TsqJob].pc = "tsqjob_catch"
    /\ LET t == proc[TsqJob].tsq
           attemptCount == proc[TsqJob].attempt_number + 1
           maxAttempts == IF proc[TsqJob].max_attempts = 0 THEN 3
                          ELSE proc[TsqJob].max_attempts
       IN IF attemptCount < maxAttempts
          THEN /\ tsqs' = [tsqs EXCEPT ![t].status = "PENDING",
                                       ![t].attempt_number = attemptCount,
                                       ![t].next_retry_at = now + TSQ_RETRY_INTERVAL]
               /\ UNCHANGED instances
          ELSE /\ tsqs' = [tsqs EXCEPT ![t].status = "FAILED",
                                       ![t].attempt_number = attemptCount]
               /\ instances' = [instances EXCEPT
                                  ![tsqs[t].inst].status = "MANUAL_INTERVENTION"]
    /\ proc' = [proc EXCEPT ![TsqJob] =
                  [Idle EXCEPT !.pc = "tsq_next", !.kind = "tsq",
                               !.todo = proc[TsqJob].todo]]
    /\ UNCHANGED <<secs, reversals, now, flow, jobs, sel, batch, stepExecs, expectedCbs,
                   receivedCbs, obs>>

\* ------------------------------------------------------ timeout sweeps

\* The sweep of the scheduler with the status of a registered expectation
SweepStatus_Pending == "PENDING"

\* The status the scheduler's sweep looks for
SweepStatus == "WAITING"

\* callbackMatcherJob.checkTimedOutCallbacks, the sweep the scheduler runs
\* every 30 seconds: expectations in status WAITING past their deadline
\* become TIMEOUT, their instance FAILED, and a TSQ row is created when the
\* instance's metadata asks for it
callbackMatcherJob_checkTimedOutCallbacks ==
    /\ LET timedOut == {e \in 1..Len(expectedCbs) :
                          expectedCbs[e].status = SweepStatus
                          /\ expectedCbs[e].expected_by < now}
           owners == {expectedCbs[e].inst : e \in timedOut}
       IN /\ expectedCbs' = [e \in 1..Len(expectedCbs) |->
                               IF e \in timedOut
                               THEN [expectedCbs[e] EXCEPT !.status = "TIMEOUT"]
                               ELSE expectedCbs[e]]
          /\ instances' = [i \in Insts |->
                             IF i \in owners
                             THEN [instances[i] EXCEPT !.status = "FAILED"]
                             ELSE instances[i]]
          /\ \E triggerTsqOnTimeout \in BOOLEAN :
               tsqs' = IF owners # {} /\ triggerTsqOnTimeout /\ Len(tsqs) < MaxTsq
                       THEN createTsqRequest(CHOOSE i \in owners : TRUE)
                       ELSE tsqs
    /\ obs' = [obs EXCEPT !.sweeps = 1 - obs.sweeps]
    /\ UNCHANGED <<secs, reversals, now, flow, jobs, sel, batch, proc, stepExecs, receivedCbs>>

\* callbackService.checkTimedOutCallbacks: PENDING expectations past their
\* deadline become TIMEOUT with their step execution, and the instance gets
\* status TIMEOUT; no TSQ row is created
checkTimedOutCallbacks ==
    /\ LET timedOut == {e \in 1..Len(expectedCbs) :
                          expectedCbs[e].status = "PENDING"
                          /\ expectedCbs[e].expected_by < now}
       IN /\ timedOut # {}
          /\ expectedCbs' = [e \in 1..Len(expectedCbs) |->
                               IF e \in timedOut
                               THEN [expectedCbs[e] EXCEPT !.status = "TIMEOUT"]
                               ELSE expectedCbs[e]]
          /\ stepExecs' = [x \in 1..Len(stepExecs) |->
                             IF \E e \in timedOut : expectedCbs[e].se = x
                             THEN [stepExecs[x] EXCEPT !.status = "TIMEOUT"]
                             ELSE stepExecs[x]]
          /\ instances' = [i \in Insts |->
                             IF \E e \in timedOut : expectedCbs[e].inst = i
                             THEN [instances[i] EXCEPT !.status = "TIMEOUT",
                                                       !.needsTsq = TRUE]
                             ELSE instances[i]]
    /\ UNCHANGED <<secs, reversals, now, flow, jobs, sel, batch, proc, receivedCbs, tsqs, obs>>

\* ----------------------------------------------------- initial states

InitCommon ==
    /\ now = 0
    /\ secs = 0
    /\ jobs = [j \in JobIds |-> NewJob]
    /\ sel = [w \in Workers |-> {}]
    /\ batch = [w \in Workers |-> <<>>]
    /\ proc = [p \in Procs |-> Idle]
    /\ instances = [i \in Insts |-> NewInstance]
    /\ stepExecs = <<>>
    /\ expectedCbs = <<>>
    /\ receivedCbs = <<>>
    /\ tsqs = <<>>
    /\ reversals = <<>>
    /\ obs = NoObs

\* Instances have been created and their jobs queued
Init ==
    /\ flow \in Flows
    /\ InitCommon

WorkerStep(w) ==
    \/ ClaimSelect(w) \/ ClaimUpdate(w) \/ JobStart(w)
    \/ JobComplete(w) \/ JobCatch(w)

LoopStep(p) ==
    \/ StepBegin(p) \/ StepExec(p) \/ StepFinish(p) \/ StepCatch(p)

\* The job queue: racing workers, the lease sweep and the clock
NextQueue ==
    \/ \E w \in Workers : WorkerStep(w) \/ LoopStep(w)
    \/ cleanupStaleJobs
    \/ Tick

SpecQueue == Init /\ [][NextQueue]_vars

\* Requests served by a handler: callbacks delivered by the switch and the
\* operator's cancel / retry / resume
HandlerStep(h) ==
    \/ \E s \in Insts : ReceiveCallback(h, s)
    \/ MatchCallback(h)
    \/ \E se \in 1..MaxStepExecs : processCallbackForStep(h, se)
    \/ \E r \in 1..MaxCallbacks : retryUnmatchedCallbacks(h, r)
    \/ resumeAfterCallback(h)
    \/ \E i \in Insts : cancelFlowInstance(h, i)
    \/ \E i \in Insts : retryFlowInstance(h, i)
    \/ \E i \in Insts : resumeFlowInstance(h, i)

\* The engine: one worker executing jobs next to the request handler that
\* serves callbacks and operator requests
NextEngine ==
    \/ \E w \in {"w1"} : WorkerStep(w) \/ LoopStep(w)
    \/ \E h \in Handlers : HandlerStep(h) \/ LoopStep(h)

SpecEngine == Init /\ [][NextEngine]_vars

\* ------------------------------------------------ claims: the job queue

BatchIds(w) == {batch[w][k].id : k \in 1..Len(batch[w])}

\* Worker w is inside executeFlowInstance for job j
Executing(w, j) ==
    /\ proc[w].kind = "job" /\ proc[w].job = j
    /\ proc[w].pc \in {"loop", "exec", "finish", "catch"}

\* C1: a claim returns to a worker only jobs that were PENDING when it marked
\* them and that no other in-flight claim had selected, so racing claims
\* over the same pending jobs never hand one job to two workers.
C1_ClaimExclusive ==
    [][\A w \in Workers : \A j \in JobIds :
          (batch[w] = <<>> /\ j \in BatchIds(w)')
          => /\ jobs[j].status = "PENDING"
             /\ jobs'[j].status = "PROCESSING" /\ jobs'[j].locked_by = w
             /\ \A o \in Workers \ {w} : j \notin sel[o]]_vars

\* Two claims are in flight together, and one of them has locked a job that
\* is ready for the other
C1_Witness ==
    \E w \in Workers : \E o \in Workers \ {w} : \E j \in JobIds :
        j \in sel[w] /\ sel[o] # {} /\ IsReady(j)

\* C5: while a worker is executing a job it claimed, the job is in no other
\* worker's claimed batch and no other worker executes it.
C5_LeaseHeldWhileExecuting ==
    \A w \in Workers : \A o \in Workers \ {w} : \A j \in JobIds :
        Executing(w, j) => (j \notin BatchIds(o) /\ ~Executing(o, j))

\* -------------------------------------------------- claims: the engine

RunningOf(i) == {e \in 1..Len(stepExecs) :
                   stepExecs[e].inst = i /\ stepExecs[e].status = "RUNNING"}

PendingOf(i) == {e \in 1..Len(expectedCbs) :
                   expectedCbs[e].inst = i /\ expectedCbs[e].status = "PENDING"}

\* Processes inside the execution loop for instance i
ActiveRuns(i) == {p \in Procs : proc[p].inst = i
                                /\ proc[p].pc \in {"loop", "exec", "finish", "catch"}}

\* C2: every instance has at most one StepExecution in status RUNNING.
C2_OneRunningStep == \A i \in Insts : Cardinality(RunningOf(i)) <= 1

\* C3: every instance has at most one ExpectedCallback in status PENDING.
C3_OnePendingCallback == \A i \in Insts : Cardinality(PendingOf(i)) <= 1

\* C4: for one instance, at most one invocation of the execution loop is
\* active at a time.
C4_OneActiveRun == \A i \in Insts : Cardinality(ActiveRuns(i)) <= 1

\* C6: resumeAfterCallback is invoked at most once for a step execution,
\* however often its callback is delivered.
C6_ResumedOnce ==
    \A a \in 1..Len(obs.resumes) : \A b \in 1..Len(obs.resumes) :
        a # b => obs.resumes[a] # obs.resumes[b]

\* C7: a step of a callback's processing (a matched callback or an
\* unmatched-callback retry resuming the flow) leaves a CANCELLED instance
\* CANCELLED and creates no step execution for it.
C7_CancelledStays ==
    [][\A h \in Handlers : \A i \in Insts :
          (/\ proc[h].kind = "callback" /\ proc[h].inst = i
           /\ proc'[h] # proc[h]
           /\ instances[i].status = "CANCELLED")
          => /\ instances'[i].status = "CANCELLED"
             /\ stepExecs' = stepExecs]_vars

\* ------------------------------------------------------ the TSQ system

\* An asynchronous flow has run up to its API call and waits for the callback
InitTsq ==
    /\ flow = FlowAsync
    /\ now = 0
    /\ secs = 0
    /\ jobs = [j \in JobIds |-> [NewJob EXCEPT !.status = "COMPLETED"]]
    /\ sel = [w \in Workers |-> {}]
    /\ batch = [w \in Workers |-> <<>>]
    /\ proc = [p \in Procs |-> Idle]
    /\ instances = [i \in Insts |->
                      [NewInstance EXCEPT !.status = "WAITING_CALLBACK",
                                          !.current_step = 2]]
    /\ stepExecs = << [inst |-> 1, step |-> 1, status |-> "COMPLETED",
                       attempt_number |-> 1, actionCode |-> "none"],
                      [inst |-> 1, step |-> 2, status |-> "WAITING",
                       attempt_number |-> 1, actionCode |-> "none"] >>
    /\ expectedCbs = << [inst |-> 1, se |-> 2, session |-> 1,
                         status |-> "PENDING", expected_by |-> CallbackTimeout] >>
    /\ receivedCbs = <<>>
    /\ tsqs = <<>>
    /\ reversals = <<>>
    /\ obs = [NoObs EXCEPT !.apiCalls = 1]

NextTsq ==
    \/ TsqLoopSelect
    \/ TsqJobClaim
    \/ \E p \in {TsqLoop, TsqJob} : TsqNext(p)
    \/ \E p \in {TsqLoop, TsqJob} \cup Handlers :
          TsqWrite(p) \/ \E a \in TsqAnswers : TsqAnswer(p, a)
    \/ TsqJobCatch
    \/ \E h \in Handlers : \E i \in Insts : initiateTsq(h, i)
    \/ scheduleTsqForIndeterminateResponses
    \/ Tick

SpecTsq == InitTsq /\ [][NextTsq]_vars

\* --------------------------------------------------------- claims: TSQ

\* C9: the attempt_number of every TsqRequest is at most its max_attempts.
C9_AttemptsBounded ==
    \A t \in 1..Len(tsqs) : tsqs[t].attempt_number <= tsqs[t].max_attempts

\* C8: a TsqRequest that received only indeterminate answers and reached its
\* terminal outcome (NOT_FOUND, or manual check required) was queried exactly
\* MAX_TSQ_RETRIES times, and no TsqRequest is queried more often than that.
C8_ExactlyThreeQueries ==
    \A t \in 1..Len(tsqs) :
        /\ tsqs[t].queries <= MAX_TSQ_RETRIES
        /\ (/\ tsqs[t].indeterminate
            /\ \/ tsqs[t].status = "NOT_FOUND"
               \/ tsqs[t].result_status = "MANUAL_CHECK_REQUIRED")
           => tsqs[t].queries = MAX_TSQ_RETRIES

\* -------------------------------------------- callback timeout, with time

\* No callback arrives: a worker runs the flows, the clock advances and the
\* periodic jobs run
NextTimeout ==
    \/ \E w \in {"w1"} : WorkerStep(w) \/ LoopStep(w)
    \/ callbackMatcherJob_checkTimedOutCallbacks
    \/ checkTimedOutCallbacks
    \/ scheduleTsqForIndeterminateResponses
    \/ Tick

\* The scheduler fires its jobs again and again, the worker keeps going and
\* time passes; callbackService.checkTimedOutCallbacks is on no schedule
FairTimeout ==
    /\ WF_vars(\E w \in {"w1"} : WorkerStep(w) \/ LoopStep(w))
    /\ WF_vars(callbackMatcherJob_checkTimedOutCallbacks)
    /\ WF_vars(scheduleTsqForIndeterminateResponses)
    /\ WF_vars(Tick)

SpecTimeout == Init /\ [][NextTimeout]_vars /\ FairTimeout

\* C10: an ExpectedCallback that is PENDING past its deadline eventually is
\* TIMEOUT, with its StepExecution TIMEOUT and a TsqRequest of its instance.
C10_TimeoutEscalates ==
    \A e \in 1..MaxStepExecs :
        (/\ e <= Len(expectedCbs)
         /\ expectedCbs[e].status = "PENDING"
         /\ expectedCbs[e].expected_by < now)
        ~> (/\ e <= Len(expectedCbs)
            /\ expectedCbs[e].status = "TIMEOUT"
            /\ stepExecs[expectedCbs[e].se].status = "TIMEOUT"
            /\ \E t \in 1..Len(tsqs) : tsqs[t].inst = expectedCbs[e].inst)

\* ------------------------------------ claims: indeterminate outcomes

\* An expectation of instance i goes to TIMEOUT in this step
TimesOut(i) ==
    \E e \in 1..Len(expectedCbs) :
        /\ expectedCbs[e].inst = i
        /\ expectedCbs[e].status # "TIMEOUT"
        /\ expectedCbs'[e].status = "TIMEOUT"

\* An API response with a TSQ-trigger action code for instance i is received
\* or recorded in this step
TriggerCodeAnswered(i) ==
    \E p \in Procs :
        /\ proc[p].inst = i
        /\ proc'[p] # proc[p]
        /\ (proc[p].result = "done_tsq" \/ proc'[p].result = "done_tsq")

CallbackStep(h) ==
    \/ \E s \in Insts : ReceiveCallback(h, s)
    \/ MatchCallback(h)
    \/ \E se \in 1..MaxStepExecs : processCallbackForStep(h, se)
    \/ \E r \in 1..MaxCallbacks : retryUnmatchedCallbacks(h, r)
    \/ resumeAfterCallback(h)

NextResume ==
    \/ \E w \in {"w1"} : WorkerStep(w) \/ LoopStep(w)
    \/ \E h \in Handlers : CallbackStep(h) \/ LoopStep(h)

\* A handler that has started runs on to its end, and so does the worker;
\* whether a callback arrives is up to the switch
FairResume ==
    /\ WF_vars(\E w \in {"w1"} : WorkerStep(w) \/ LoopStep(w))
    /\ WF_vars(\E h \in Handlers :
                  MatchCallback(h) \/ resumeAfterCallback(h) \/ LoopStep(h))

\* Flows that suspend on a callback, complete in the loop or complete in
\* the resume
InitResume ==
    /\ flow \in Flows \cup {FlowSyncCallback}
    /\ InitCommon

SpecResume == InitResume /\ [][NextResume]_vars /\ FairResume

InLoop(p) == proc[p].pc \in {"loop", "exec", "finish", "catch"}

\* A callback found the PENDING expectation of the suspended instance i
\* (and the table of step executions has room for the step that follows)
MatchedWhileSuspended(i) ==
    /\ instances[i].status = "WAITING_CALLBACK"
    /\ Len(stepExecs) < MaxStepExecs
    /\ \E h \in Handlers :
          /\ proc[h].pc = "matched"
          /\ expectedCbs[proc[h].ec].inst = i
          /\ expectedCbs[proc[h].ec].status = "PENDING"

Completes(p) ==
    /\ proc'[p] # proc[p]
    /\ \/ /\ proc[p].pc = "finish"
          /\ proc[p].result \in {"done", "done_tsq"}
          /\ LET next == getNextStep(flow, proc[p].step, proc[p].payload)
             IN next = 0 \/ flow.steps[next].type = "END"
       \/ /\ proc[p].pc = "resume"
          /\ getNextStep(flow, stepExecs[proc[p].se].step,
                         instances[proc[p].inst].current_payload) = 0

\* C13: a step that ends the flow leaves the instance COMPLETED with its
\* final_response equal to the current payload and, for a synchronous flow,
\* callback_sent true; the response of an API call without callback
\* overwrites the payload field exactly when it holds a non-null value.
C13_Completion ==
    [][\A p \in Procs :
          /\ Completes(p)
             => /\ instances'[proc[p].inst].status = "COMPLETED"
                /\ instances'[proc[p].inst].final_response =
                      instances'[proc[p].inst].current_payload
                /\ flow.is_sync => instances'[proc[p].inst].callback_sent
          /\ (/\ proc[p].pc = "exec" /\ proc'[p].pc = "finish"
              /\ flow.steps[proc[p].step].type = "API_CALL"
              /\ ~flow.steps[proc[p].step].includeCallback)
             => proc'[p].payload =
                   IF proc'[p].resp \in {0, Null} THEN proc[p].payload
                   ELSE proc'[p].resp]_vars

\* ------------------------------------------------------------- reversals

\* What the caller hands to createReversalRequest(params): the controller
\* passes the instance id as the first positional argument, so params is a
\* string, not an object with an originalInstanceId
ControllerArgs(i) == [isObject |-> FALSE, value |-> i]

\* const { originalInstanceId, ... } = params: undefined (0) unless params
\* is an object that has the property
Destructure(params) == IF params.isObject THEN params.value ELSE 0

\* getReversalConfig: the payload swaps the legs for FTD_REVERSAL and
\* FTC_REVERSAL; for any other type it lists the completed steps only
swapsLegs(reversalType) == reversalType \in {"FTD_REVERSAL", "FTC_REVERSAL"}

\* The reversal_requests row createReversalRequest inserts; calls counts the
\* compensating calls issued for it and cancelled records that
\* cancelReversal has succeeded on it
NewReversal(i, reversalType) ==
    [original_instance_id |-> i, reversal_type |-> reversalType,
     swapped |-> swapsLegs(reversalType), status |-> "PENDING",
     calls |-> 0, cancelled |-> FALSE]

\* processController.initiateReversal: an operator asks for a reversal of
\* instance i; the type defaults to FULL_REVERSAL
initiateReversal(h, i) ==
    /\ proc[h].pc = "idle"
    /\ proc' = [proc EXCEPT ![h] = [Idle EXCEPT !.pc = "rev_create",
                                                !.kind = "reversal",
                                                !.inst = i]]
    /\ UNCHANGED <<secs, reversals, now, flow, jobs, sel, batch, instances, stepExecs,
                   expectedCbs, receivedCbs, tsqs, obs>>

\* reversalService.createReversalRequest as the controller calls it:
\* findById(originalInstanceId) finds no instance for an undefined id and
\* the call throws; with an id the request row is created PENDING
createReversalRequest(h) ==
    /\ proc[h].pc = "rev_create"
    /\ LET originalInstanceId == Destructure(ControllerArgs(proc[h].inst))
       IN IF originalInstanceId \in Insts
          THEN /\ Len(reversals) < MaxReversals
               /\ reversals' = Append(reversals,
                     NewReversal(originalInstanceId, "FULL_REVERSAL"))
               /\ proc' = [proc EXCEPT ![h].pc = "rev_read",
                                       ![h].rev = Len(reversals) + 1]
          ELSE /\ UNCHANGED reversals
               /\ proc' = [proc EXCEPT ![h] = Idle]
    /\ UNCHANGED <<secs, now, flow, jobs, sel, batch, instances, stepExecs,
                   expectedCbs, receivedCbs, tsqs, obs>>

\* A transfer run from the queue, the operator's reversal request, and the
\* cron jobs that go on running beside them
NextReversal ==
    \/ \E w \in {"w1"} : WorkerStep(w) \/ LoopStep(w)
    \/ \E h \in Handlers : \E i \in Insts : initiateReversal(h, i)
    \/ \E h \in Handlers : createReversalRequest(h)
    \/ callbackMatcherJob_checkTimedOutCallbacks
    \/ Tick

FairReversal ==
    /\ WF_vars(\E w \in {"w1"} : WorkerStep(w) \/ LoopStep(w))
    /\ WF_vars(\E h \in Handlers : createReversalRequest(h))
    /\ WF_vars(callbackMatcherJob_checkTimedOutCallbacks)

InitReversal ==
    /\ flow = FlowTransfer
    /\ InitCommon

SpecReversal == InitReversal /\ [][NextReversal]_vars /\ FairReversal

\* The step executions of instance i for the two legs hold these codes
LegsAnswered(i, first, second) ==
    \E a, b \in 1..Len(stepExecs) :
       /\ stepExecs[a].inst = i /\ stepExecs[a].step = 2
       /\ stepExecs[a].actionCode = first
       /\ stepExecs[b].inst = i /\ stepExecs[b].step = 3
       /\ stepExecs[b].actionCode = second

\* C14: once the first leg of a transfer was answered 000 and the second
\* 999, a ReversalRequest whose payload exchanges the legs comes to exist
\* for the instance, and an instance whose reversal succeeded is REVERSED
C14_PartialSuccessReverses ==
    /\ \A i \in Insts :
          LegsAnswered(i, "000", "999")
             ~> (\E r \in 1..Len(reversals) :
                    /\ reversals[r].original_instance_id = i
                    /\ reversals[r].swapped)
    /\ [](\A r \in 1..Len(reversals) :
            reversals[r].status = "SUCCESS"
               => instances[reversals[r].original_instance_id].status = "REVERSED")

\* ------------------------------------------------------- job attempts

\* Worker w leaves the catch of its job
JobFails(w) == proc[w].pc = "job_catch" /\ proc'[w].pc = "idle"

\* C15: every execution of a job that throws is counted once, so a job that
\* always throws is executed max_attempts times; the failure that reaches
\* max_attempts marks the job FAILED and its instance FAILED with the
\* message that names the attempts, and a FAILED job is never PENDING again
C15_FailsAfterMaxAttempts ==
    [][/\ \A w \in Workers :
             JobFails(w) =>
                LET j == proc[w].job
                IN /\ jobs'[j].attempt_number = jobs[j].attempt_number + 1
                   /\ jobs'[j].status =
                         IF jobs'[j].attempt_number < JobMaxAttempts
                         THEN "PENDING" ELSE "FAILED"
                   /\ (jobs'[j].status = "FAILED" /\ JobInst(j) # 0)
                         => /\ instances'[JobInst(j)].status = "FAILED"
                            /\ instances'[JobInst(j)].last_error = "job attempts"
       /\ \A j \in JobIds :
             jobs[j].status = "FAILED" => jobs'[j].status # "PENDING"]_vars

\* ----------------------------------------------------------- backoff

\* Time passes within one unit of the clock
Tock ==
    /\ secs < MaxSecs /\ secs < BackoffPerUnit - 1
    /\ secs' = secs + 1
    /\ UNCHANGED <<now, reversals, flow, jobs, sel, batch, proc, instances,
                   stepExecs, expectedCbs, receivedCbs, tsqs, obs>>

\* One worker polls the queue while time passes
NextBackoff ==
    \/ \E w \in {"w1"} : WorkerStep(w) \/ LoopStep(w)
    \/ Tick
    \/ Tock

FairBackoff == WF_vars(\E w \in {"w1"} : WorkerStep(w) \/ LoopStep(w))

SpecBackoff == Init /\ [][NextBackoff]_vars /\ FairBackoff

\* The claim of worker w returns job j
Returns(w, j) == j \in sel[w] /\ sel'[w] = {}

\* C16: a job rescheduled after a failed attempt gets next_retry_at = now +
\* attempt_number backoff units, and no claim returns a job before its
\* next_retry_at has passed
C16_BackoffHonoured ==
    [][/\ \A w \in Workers :
             (JobFails(w) /\ jobs'[proc[w].job].status = "PENDING")
                => jobs'[proc[w].job].next_retry_at
                      = Clock + jobs'[proc[w].job].attempt_number
       /\ \A w \in Workers : \A j \in JobIds :
             Returns(w, j)
                => (jobs[j].next_retry_at = Null \/ jobs[j].next_retry_at <= Clock)]_vars

\* ------------------------------------------------- notifications to BFS

\* sendPendingBfsCallbacks, the query: finished instances not yet notified,
\* created within the window
PendingBfs == {i \in Insts :
                 /\ instances[i].status \in {"COMPLETED", "FAILED"}
                 /\ ~instances[i].callback_sent
                 /\ instances[i].created_at > now - NotifyWindow}

\* retryFailedBfsCallbacks, the query: instances whose notification failed,
\* below the retry maximum, not updated for 5 minutes x error_count
\* (updated_at follows the writes of the two jobs, the only writers of a
\* finished instance beside them being absent where the query runs)
FailedBfs == {i \in Insts :
                /\ instances[i].status \in {"COMPLETED", "FAILED"}
                /\ ~instances[i].callback_sent
                /\ instances[i].error_count > 0
                /\ instances[i].error_count < BfsMaxRetries
                /\ instances[i].updated_at < now - instances[i].error_count}

RECURSIVE RowsOf(_)
RowsOf(S) ==
    IF S = {} THEN <<>>
    ELSE LET i == CHOOSE x \in S : \A y \in S : x <= y
         IN <<[id |-> i, error_count |-> instances[i].error_count]>>
               \o RowsOf(S \ {i})

\* A run of one of the two jobs starts: its query returns the rows it will
\* go through (an empty result ends the run at once)
BfsSelect(p) ==
    /\ proc[p].pc = "idle"
    /\ LET found == IF p = BfsPending THEN PendingBfs ELSE FailedBfs
       IN /\ found # {}
          /\ proc' = [proc EXCEPT ![p] = [Idle EXCEPT !.pc = "bfs_next",
                                                      !.kind = "bfs",
                                                      !.todo = RowsOf(found)]]
    /\ UNCHANGED <<now, secs, reversals, flow, jobs, sel, batch, instances,
                   stepExecs, expectedCbs, receivedCbs, tsqs, obs>>

\* The loop of the job calls sendCallbackToBfs for its next row, which
\* reads the instance and posts to its callback URL; after the last row the
\* run ends
BfsSend(p) ==
    /\ proc[p].pc = "bfs_next"
    /\ IF proc[p].todo = <<>>
       THEN proc' = [proc EXCEPT ![p] = Idle]
       ELSE proc' = [proc EXCEPT ![p].pc = "bfs_post",
                                 ![p].inst = Head(proc[p].todo).id,
                                 ![p].read = Head(proc[p].todo).error_count,
                                 ![p].todo = Tail(proc[p].todo)]
    /\ UNCHANGED <<now, secs, reversals, flow, jobs, sel, batch, instances,
                   stepExecs, expectedCbs, receivedCbs, tsqs, obs>>

\* The post is answered 2xx and sendCallbackToBfs sets callback_sent, or it
\* fails and throws: sendPendingBfsCallbacks then writes the error count of
\* the row it selected plus one, retryFailedBfsCallbacks only logs
BfsResponse(p, ack) ==
    /\ proc[p].pc = "bfs_post"
    /\ LET i == proc[p].inst
       IN IF ack
          THEN instances' = [instances EXCEPT ![i].callback_sent = TRUE,
                                              ![i].updated_at = now]
          ELSE IF p = BfsPending
          THEN /\ proc[p].read < MaxErrors
               /\ instances' = [instances EXCEPT
                                  ![i].error_count = proc[p].read + 1,
                                  ![i].last_error = "bfs callback",
                                  ![i].updated_at = now]
          ELSE UNCHANGED instances
    /\ proc' = [proc EXCEPT ![p].pc = "bfs_next"]
    /\ UNCHANGED <<now, secs, reversals, flow, jobs, sel, batch, stepExecs,
                   expectedCbs, receivedCbs, tsqs, obs>>

BfsStep(p) ==
    \/ BfsSelect(p) \/ BfsSend(p)
    \/ \E ack \in BOOLEAN : BfsResponse(p, ack)

\* The creation time of an instance that finishes a day after its request
LongAgo == 0 - NotifyWindow

\* An asynchronous instance that has ended, COMPLETED or FAILED, and whose
\* caller has not been notified
Finished(st, created) ==
    [NewInstance EXCEPT !.status = st, !.current_step = 2,
                        !.created_at = created,
                        !.has_final = (st = "COMPLETED"),
                        !.final_response = IF st = "COMPLETED" THEN InputField ELSE 0,
                        !.last_error = IF st = "FAILED" THEN "step failed" ELSE ""]

InitNotify ==
    /\ flow = FlowAsync
    /\ now = 0
    /\ secs = 0
    /\ jobs = [j \in JobIds |->
                 [NewJob EXCEPT !.status = IF JobInst(j) = 0 THEN "FAILED"
                                           ELSE "COMPLETED"]]
    /\ sel = [w \in Workers |-> {}]
    /\ batch = [w \in Workers |-> <<>>]
    /\ proc = [p \in Procs |-> Idle]
    /\ \E st \in {"COMPLETED", "FAILED"} : \E created \in {0, LongAgo} :
          instances = [i \in Insts |-> Finished(st, created)]
    /\ stepExecs = <<>>
    /\ expectedCbs = <<>>
    /\ receivedCbs = <<>>
    /\ tsqs = <<>>
    /\ reversals = <<>>
    /\ obs = NoObs

\* The cron jobs that notify BFS, beside the callback sweep, as time passes
NextNotify ==
    \/ \E p \in {BfsPending, BfsRetry} : BfsStep(p)
    \/ callbackMatcherJob_checkTimedOutCallbacks
    \/ Tick

\* Each job goes on running, and the receiver answers 2xx in the end
FairNotify ==
    /\ \A p \in {BfsPending, BfsRetry} :
          /\ WF_vars(BfsSelect(p) \/ BfsSend(p))
          /\ WF_vars(\E ack \in BOOLEAN : BfsResponse(p, ack))
          /\ SF_vars(BfsResponse(p, TRUE))
    /\ WF_vars(callbackMatcherJob_checkTimedOutCallbacks)

SpecNotify == InitNotify /\ [][NextNotify]_vars /\ FairNotify

\* Process p posts a notification for an instance
Posts(p) == proc[p].pc = "bfs_next" /\ proc'[p].pc = "bfs_post"

\* C17: no notification is posted for an instance whose callback_sent flag
\* is already true
C17_NotifiedOnce ==
    [][\A p \in {BfsPending, BfsRetry} :
          Posts(p) => ~instances[proc'[p].inst].callback_sent]_vars

\* C18: every asynchronous instance that reached a final status has its
\* notification acknowledged in the end
C18_EventuallyNotified ==
    \A i \in Insts :
       (/\ instances[i].status \in {"COMPLETED", "FAILED", "REVERSED",
                                    "REVERSAL_FAILED"}
        /\ ~flow.is_sync)
          ~> instances[i].callback_sent

\* ------------------------------------------------------ final statuses

\* C19: an instance whose status is COMPLETED, FAILED, CANCELLED or REVERSED
\* keeps it, except that a finished instance may become REVERSED or
\* REVERSAL_FAILED
C19_FinalStatusAbsorbing ==
    [][\A i \in Insts :
          instances[i].status \in {"COMPLETED", "FAILED", "CANCELLED", "REVERSED"}
             => \/ instances'[i].status = instances[i].status
                \/ instances'[i].status \in {"REVERSED", "REVERSAL_FAILED"}]_vars

\* ------------------------------------- expectations: match and timeout

\* A flow that awaits a callback runs from the queue while callbacks come
\* in and the timeout sweeps run
InitMatch ==
    /\ flow = FlowAsync
    /\ InitCommon

NextMatch ==
    \/ \E w \in {"w1"} : WorkerStep(w) \/ LoopStep(w)
    \/ \E h \in Handlers : CallbackStep(h) \/ LoopStep(h)
    \/ callbackMatcherJob_checkTimedOutCallbacks
    \/ checkTimedOutCallbacks
    \/ Tick

SpecMatch == InitMatch /\ [][NextMatch]_vars

\* C20: the status of an ExpectedCallback changes only from PENDING, and
\* only to MATCHED or to TIMEOUT
C20_ExpectationSettlesOnce ==
    [][\A e \in 1..Len(expectedCbs) :
          expectedCbs'[e].status # expectedCbs[e].status
             => /\ expectedCbs[e].status = "PENDING"
                /\ expectedCbs'[e].status \in {"MATCHED", "TIMEOUT"}]_vars

\* ------------------------------------------- the reversal service

ReversalTypes == {"FTD_REVERSAL", "FTC_REVERSAL", "FULL_REVERSAL"}

\* Answers of the switch to the compensating call: success, pending (the
\* result comes by callback), failure, and a request that fails
RevAnswers == {"000", "001", "999", "error"}

\* createReversalRequest called with a params object that names the
\* instance: the row is inserted PENDING
createReversalFor(i, reversalType) ==
    /\ Len(reversals) < MaxReversals
    /\ reversals' = Append(reversals, NewReversal(i, reversalType))
    /\ UNCHANGED <<now, secs, flow, jobs, sel, batch, proc, instances,
                   stepExecs, expectedCbs, receivedCbs, tsqs, obs>>

\* A call of executeReversalRequest is over: the loop of
\* processPendingReversals goes on, any other caller returns
RevReturn(p) ==
    IF p = RevJob THEN [proc[p] EXCEPT !.pc = "rev_next", !.rev = 0,
                                       !.code = "none"]
    ELSE Idle

\* A caller of the service asks for reversal r to be executed
executeReversalRequest(h, r) ==
    /\ proc[h].pc = "idle"
    /\ r \in 1..Len(reversals)
    /\ proc' = [proc EXCEPT ![h] = [Idle EXCEPT !.pc = "rev_read",
                                                !.kind = "reversal",
                                                !.rev = r]]
    /\ UNCHANGED <<now, secs, reversals, flow, jobs, sel, batch, instances,
                   stepExecs, expectedCbs, receivedCbs, tsqs, obs>>

\* executeReversalRequest: findById and the guard, which throws unless the
\* row read is PENDING
RevRead(p) ==
    /\ proc[p].pc = "rev_read"
    /\ proc' = [proc EXCEPT ![p] =
                  IF reversals[proc[p].rev].status = "PENDING"
                  THEN [proc[p] EXCEPT !.pc = "rev_mark"]
                  ELSE RevReturn(p)]
    /\ UNCHANGED <<now, secs, reversals, flow, jobs, sel, batch, instances,
                   stepExecs, expectedCbs, receivedCbs, tsqs, obs>>

\* executeReversalRequest: the row is updated to IN_PROGRESS
RevMark(p) ==
    /\ proc[p].pc = "rev_mark"
    /\ reversals' = [reversals EXCEPT ![proc[p].rev].status = "IN_PROGRESS"]
    /\ proc' = [proc EXCEPT ![p].pc = "rev_call"]
    /\ UNCHANGED <<now, secs, flow, jobs, sel, batch, instances,
                   stepExecs, expectedCbs, receivedCbs, tsqs, obs>>

\* executeReversalRequest: the compensating call is posted; a failed
\* request goes to the catch, which marks the row FAILED; 001 waits for the
\* callback; any other answer is processed as the result
RevCall(p, a) ==
    /\ proc[p].pc = "rev_call"
    /\ LET r == proc[p].rev
           issued == [reversals EXCEPT ![r].calls = reversals[r].calls + 1]
       IN IF a = "error"
          THEN /\ reversals' = [issued EXCEPT ![r].status = "FAILED"]
               /\ proc' = [proc EXCEPT ![p] = RevReturn(p)]
          ELSE IF a = "001"
          THEN /\ reversals' = issued
               /\ proc' = [proc EXCEPT ![p] = RevReturn(p)]
          ELSE /\ reversals' = issued
               /\ proc' = [proc EXCEPT ![p].pc = "rev_result", ![p].code = a]
    /\ UNCHANGED <<now, secs, flow, jobs, sel, batch, instances,
                   stepExecs, expectedCbs, receivedCbs, tsqs, obs>>

\* processReversalCallback: the callback of a compensating call arrives,
\* is stored, and is processed as the result, whatever the row's status
processReversalCallback(h, r, a) ==
    /\ proc[h].pc = "idle"
    /\ r \in 1..Len(reversals)
    /\ reversals[r].calls > 0
    /\ proc' = [proc EXCEPT ![h] = [Idle EXCEPT !.pc = "rev_result",
                                                !.kind = "rev_callback",
                                                !.rev = r, !.code = a]]
    /\ UNCHANGED <<now, secs, reversals, flow, jobs, sel, batch, instances,
                   stepExecs, expectedCbs, receivedCbs, tsqs, obs>>

\* processReversalResult: 000 makes the row SUCCESS and the instance
\* REVERSED, any other code FAILED and REVERSAL_FAILED; then BFS is
\* notified.  A notification that fails throws: inside
\* executeReversalRequest the catch then marks the row FAILED
processReversalResult(p, bfs) ==
    /\ proc[p].pc = "rev_result"
    /\ LET r == proc[p].rev
           i == reversals[r].original_instance_id
           status == IF proc[p].code = "000" THEN "SUCCESS" ELSE "FAILED"
           done == [instances EXCEPT ![i].status =
                       IF status = "SUCCESS" THEN "REVERSED"
                       ELSE "REVERSAL_FAILED"]
       IN /\ reversals' = [reversals EXCEPT ![r].status =
                              IF bfs = "failed" /\ proc[p].kind # "rev_callback"
                              THEN "FAILED" ELSE status]
          /\ instances' = IF bfs = "sent"
                          THEN [done EXCEPT ![i].callback_sent = TRUE]
                          ELSE done
    /\ proc' = [proc EXCEPT ![p] = RevReturn(p)]
    /\ UNCHANGED <<now, secs, flow, jobs, sel, batch, stepExecs, expectedCbs,
                   receivedCbs, tsqs, obs>>

\* cancelReversal: findById and the guard, which lets a PENDING row pass
cancelReversal(h, r) ==
    /\ proc[h].pc = "idle"
    /\ r \in 1..Len(reversals)
    /\ reversals[r].status = "PENDING"
    /\ proc' = [proc EXCEPT ![h] = [Idle EXCEPT !.pc = "rev_cancel",
                                                !.kind = "rev_cancel",
                                                !.rev = r]]
    /\ UNCHANGED <<now, secs, reversals, flow, jobs, sel, batch, instances,
                   stepExecs, expectedCbs, receivedCbs, tsqs, obs>>

\* cancelReversal: the row is updated to CANCELLED and the call returns
RevCancelled(h) ==
    /\ proc[h].pc = "rev_cancel"
    /\ reversals' = [reversals EXCEPT ![proc[h].rev].status = "CANCELLED",
                                      ![proc[h].rev].cancelled = TRUE]
    /\ proc' = [proc EXCEPT ![h] = Idle]
    /\ UNCHANGED <<now, secs, flow, jobs, sel, batch, instances,
                   stepExecs, expectedCbs, receivedCbs, tsqs, obs>>

RECURSIVE IdsOf(_)
IdsOf(S) ==
    IF S = {} THEN <<>>
    ELSE LET r == CHOOSE x \in S : \A y \in S : x <= y
         IN <<r>> \o IdsOf(S \ {r})

\* processPendingReversals: the PENDING rows in creation order
RevJobSelect ==
    /\ proc[RevJob].pc = "idle"
    /\ LET found == {r \in 1..Len(reversals) : reversals[r].status = "PENDING"}
       IN /\ found # {}
          /\ proc' = [proc EXCEPT ![RevJob] =
                          [Idle EXCEPT !.pc = "rev_next", !.kind = "reversal",
                                       !.todo = IdsOf(found)]]
    /\ UNCHANGED <<now, secs, reversals, flow, jobs, sel, batch, instances,
                   stepExecs, expectedCbs, receivedCbs, tsqs, obs>>

\* processPendingReversals: executeReversalRequest for the next row of the
\* list, its errors caught; after the last row the run ends
RevJobNext ==
    /\ proc[RevJob].pc = "rev_next"
    /\ proc' = [proc EXCEPT ![RevJob] =
                  IF proc[RevJob].todo = <<>> THEN Idle
                  ELSE [proc[RevJob] EXCEPT !.pc = "rev_read",
                                            !.rev = Head(proc[RevJob].todo),
                                            !.todo = Tail(proc[RevJob].todo)]]
    /\ UNCHANGED <<now, secs, reversals, flow, jobs, sel, batch, instances,
                   stepExecs, expectedCbs, receivedCbs, tsqs, obs>>

\* The steps of a process inside the reversal service
RevStep(p) ==
    \/ RevRead(p) \/ RevMark(p)
    \/ \E a \in RevAnswers : RevCall(p, a)
    \/ \E bfs \in {"sent", "none", "failed"} : processReversalResult(p, bfs)

\* The service as its callers may use it: requests are created, executed
\* one by one or by the pending pass, cancelled, and answered by callbacks
NextRevService ==
    \/ \E i \in Insts : \E t \in ReversalTypes : createReversalFor(i, t)
    \/ \E h \in Handlers : \E r \in 1..MaxReversals :
          \/ executeReversalRequest(h, r)
          \/ cancelReversal(h, r)
          \/ \E a \in {"000", "999"} : processReversalCallback(h, r, a)
    \/ \E h \in Handlers : RevCancelled(h) \/ RevStep(h)
    \/ RevJobSelect \/ RevJobNext \/ RevStep(RevJob)

SpecRevService == InitNotify /\ [][NextRevService]_vars

\* C21: the status of a ReversalRequest moves only PENDING to IN_PROGRESS,
\* IN_PROGRESS to SUCCESS or FAILED, or PENDING to CANCELLED, and an
\* instance that is REVERSED or REVERSAL_FAILED keeps that status
C21_ReversalSettlesOnce ==
    [][/\ \A r \in 1..Len(reversals) :
             reversals'[r].status # reversals[r].status
                => \/ /\ reversals[r].status = "PENDING"
                      /\ reversals'[r].status \in {"IN_PROGRESS", "CANCELLED"}
                   \/ /\ reversals[r].status = "IN_PROGRESS"
                      /\ reversals'[r].status \in {"SUCCESS", "FAILED"}
       /\ \A i \in Insts :
             instances[i].status \in {"REVERSED", "REVERSAL_FAILED"}
                => instances'[i].status = instances[i].status]_vars

\* C22: the compensating call of a ReversalRequest is issued at most once,
\* and never once cancelReversal has succeeded on it
C22_OneCompensatingCall ==
    [][\A r \in 1..Len(reversals) :
          reversals'[r].calls > reversals[r].calls
             => /\ reversals[r].calls = 0
                /\ ~reversals[r].cancelled]_vars

\* --------------------------------------------- TSQ: classification

\* The service loop and the operator's request query the switch as the
\* clock advances
NextClassify ==
    \/ TsqLoopSelect
    \/ TsqNext(TsqLoop)
    \/ \E p \in {TsqLoop} \cup Handlers :
          TsqWrite(p) \/ \E a \in TsqAnswers : TsqAnswer(p, a)
    \/ \E h \in Handlers : \E i \in Insts : initiateTsq(h, i)
    \/ scheduleTsqForIndeterminateResponses
    \/ Tick

SpecClassify == InitTsq /\ [][NextClassify]_vars

\* Process p has the answer to the query of row t evaluated
Classifies(p, t) ==
    /\ proc[p].pc = "tsq_sent" /\ proc[p].tsq = t
    /\ proc'[p] # proc[p]
    /\ tsqs'[t].classified = tsqs[t].classified + 1

Undefined == "undefined"

MapFields == {"srcBankCode", "destBankCode", "narration"}

MapValues == {"gh", "GH"}

\* An object with the fields of the mappings; an absent field reads undefined
Payloads == [MapFields -> MapValues \cup {Undefined}]

\* applyTransformation: String(value).toUpperCase(), and the value itself
\* for an unknown type
applyTransformation(value, transformType) ==
    IF transformType = "uppercase" THEN "GH" ELSE value

\* applyFieldMappings, the value of one mapping: a mapping without a source
\* gives its default; otherwise the source field is read, replaced by the
\* swap field's value when the swap configuration names the source, then
\* defaulted when undefined, then transformed
MappedValue_SwapAsFallback(data, mapping, swapConfig) ==
    IF mapping.source = ""
    THEN mapping.default_value
    ELSE LET read == data[mapping.source]
             swapped == IF read = Undefined /\ swapConfig[mapping.source] # ""
                        THEN data[swapConfig[mapping.source]]
                        ELSE read
             defaulted == IF swapped = Undefined /\ mapping.default_value # Undefined
                          THEN mapping.default_value
                          ELSE swapped
         IN IF mapping.transform # "" /\ defaulted # Undefined
            THEN applyTransformation(defaulted, mapping.transform)
            ELSE defaulted

MappedValue(data, mapping, swapConfig) ==
    IF mapping.source = ""
    THEN mapping.default_value
    ELSE LET read == data[mapping.source]
             swapped == IF swapConfig[mapping.source] # ""
                        THEN data[swapConfig[mapping.source]]
                        ELSE read
             defaulted == IF swapped = Undefined /\ mapping.default_value # Undefined
                          THEN mapping.default_value
                          ELSE swapped
         IN IF mapping.transform # "" /\ defaulted # Undefined
            THEN applyTransformation(defaulted, mapping.transform)
            ELSE defaulted

\* applyFieldMappings, the loop over the mappings from the k-th on: a defined
\* value is set on the result's target field
RECURSIVE applyMappingsFrom(_, _, _, _, _)
applyMappingsFrom(k, result, data, mappings, swapConfig) ==
    IF k > Len(mappings)
    THEN result
    ELSE LET value == MappedValue(data, mappings[k], swapConfig)
         IN applyMappingsFrom(k + 1,
                              IF value # Undefined
                              THEN [result EXCEPT ![mappings[k].target] = value]
                              ELSE result,
                              data, mappings, swapConfig)

applyFieldMappings(data, mappings, swapConfig) ==
    applyMappingsFrom(1, [f \in MapFields |-> Undefined], data, mappings, swapConfig)

\* A field mapped to itself without transform or default
Direct(f) == [source |-> f, target |-> f, transform |-> "", default_value |-> Undefined]

\* The two bank codes mapped to themselves, alone or followed by a third
\* mapping with a default or a transform
BankCodes == <<Direct("srcBankCode"), Direct("destBankCode")>>

MappingSets ==
    { BankCodes,
      Append(BankCodes, [source |-> "narration", target |-> "narration",
                         transform |-> "", default_value |-> "gh"]),
      Append(BankCodes, [source |-> "narration", target |-> "narration",
                         transform |-> "uppercase", default_value |-> Undefined]),
      Append(BankCodes, [source |-> "", target |-> "narration",
                         transform |-> "", default_value |-> "GH"]) }

NoSwap == [f \in MapFields |-> ""]

SwapBankCodes == [NoSwap EXCEPT !["srcBankCode"] = "destBankCode",
                                !["destBankCode"] = "srcBankCode"]

\* No swap, the two bank codes exchanged, or only one of them redirected
SwapConfigs == {NoSwap, SwapBankCodes, [NoSwap EXCEPT !["srcBankCode"] = "destBankCode"]}

\* A handler holds a payload for an API step with field mappings and a swap
\* configuration
InitSwap ==
    /\ \E m \in MappingSets : \E sc \in SwapConfigs :
          flow = [steps |-> <<[type |-> "API_CALL", fieldMappings |-> m,
                               swapConfig |-> sc]>>]
    /\ \E d \in Payloads :
          proc = [p \in Procs |->
                    IF p \in Handlers
                    THEN [Idle EXCEPT !.pc = "map", !.step = 1, !.payload = d]
                    ELSE Idle]
    /\ now = 0 /\ secs = 0
    /\ jobs = <<>> /\ sel = [w \in Workers |-> {}] /\ batch = [w \in Workers |-> <<>>]
    /\ instances = <<>> /\ stepExecs = <<>>
    /\ expectedCbs = <<>> /\ receivedCbs = <<>>
    /\ tsqs = <<>> /\ reversals = <<>>
    /\ obs = NoObs

\* executeApiCall: the request body is the payload mapped with the step's
\* field mappings and swap configuration
MapRequest(h) ==
    /\ proc[h].pc = "map"
    /\ LET st == flow.steps[proc[h].step]
       IN proc' = [proc EXCEPT ![h].pc = "mapped",
                      ![h].resp = applyFieldMappings(proc[h].payload, st.fieldMappings,
                                                     st.swapConfig)]
    /\ UNCHANGED <<now, secs, flow, jobs, sel, batch, instances, stepExecs,
                   expectedCbs, receivedCbs, tsqs, reversals, obs>>

\* The mapped body is mapped again with the same mappings and swap
\* configuration
MapBack(h) ==
    /\ proc[h].pc = "mapped"
    /\ LET st == flow.steps[proc[h].step]
       IN proc' = [proc EXCEPT ![h].pc = "unmapped",
                      ![h].resp = applyFieldMappings(proc[h].resp, st.fieldMappings,
                                                     st.swapConfig)]
    /\ UNCHANGED <<now, secs, flow, jobs, sel, batch, instances, stepExecs,
                   expectedCbs, receivedCbs, tsqs, reversals, obs>>

NextSwap == \E h \in Handlers : MapRequest(h) \/ MapBack(h)

SpecSwap == InitSwap /\ [][NextSwap]_vars

\* C24: with the two bank codes mapped to themselves and a swap configuration
\* exchanging them, one pass places each value in the other field and a
\* second pass with the same configuration places both back
C24_SwapRoundTrip ==
    \A h \in Handlers :
       flow.steps[1].swapConfig = SwapBankCodes =>
          /\ proc[h].pc = "mapped" =>
                /\ proc[h].resp["srcBankCode"] = proc[h].payload["destBankCode"]
                /\ proc[h].resp["destBankCode"] = proc[h].payload["srcBankCode"]
          /\ proc[h].pc = "unmapped" =>
                /\ proc[h].resp["srcBankCode"] = proc[h].payload["srcBankCode"]
                /\ proc[h].resp["destBankCode"] = proc[h].payload["destBankCode"]

\* Two different bank codes, one of them absent, went through both passes
C24_Witness ==
    \E h \in Handlers :
       /\ flow.steps[1].swapConfig = SwapBankCodes
       /\ proc[h].pc = "unmapped"
       /\ proc[h].payload["srcBankCode"] = "gh"
       /\ proc[h].payload["destBankCode"] = Undefined
       /\ proc[h].resp["srcBankCode"] = "gh"

\* ------------------------------------------------ TSQ: the scheduled job

\* node-cron runs the job every 30 seconds and every await of a started run
\* completes; the clock advances
FairTsq ==
    /\ WF_vars(TsqJobClaim)
    /\ WF_vars(TsqLoopSelect)
    /\ WF_vars(TsqJobCatch)
    /\ \A p \in {TsqLoop, TsqJob} :
          /\ WF_vars(TsqNext(p))
          /\ WF_vars(TsqSend(p))
          /\ WF_vars(\E a \in TsqAnswers : TsqAnswer(p, a))
    /\ WF_vars(scheduleTsqForIndeterminateResponses)
    /\ WF_vars(Tick)

\* The scheduled processing with the GIP configuration in place
NextTsqJobs ==
    \/ TsqLoopSelect
    \/ TsqJobClaim
    \/ \E p \in {TsqLoop, TsqJob} :
          TsqNext(p) \/ TsqSend(p) \/ \E a \in TsqAnswers : TsqAnswer(p, a)
    \/ TsqJobCatch
    \/ scheduleTsqForIndeterminateResponses
    \/ Tick

\* The instance waits for its callback; its TSQ row does not exist yet or was
\* created one retry interval ago and is due
InitTsqJobs ==
    /\ flow = FlowAsync
    /\ now = 0
    /\ secs = 0
    /\ jobs = [j \in JobIds |-> [NewJob EXCEPT !.status = "COMPLETED"]]
    /\ sel = [w \in Workers |-> {}]
    /\ batch = [w \in Workers |-> <<>>]
    /\ proc = [p \in Procs |-> Idle]
    /\ instances = [i \in Insts |->
                      [NewInstance EXCEPT !.status = "WAITING_CALLBACK",
                                          !.current_step = 2]]
    /\ stepExecs = << [inst |-> 1, step |-> 1, status |-> "COMPLETED",
                       attempt_number |-> 1, actionCode |-> "none"],
                      [inst |-> 1, step |-> 2, status |-> "WAITING",
                       attempt_number |-> 1, actionCode |-> "none"] >>
    /\ expectedCbs = << [inst |-> 1, se |-> 2, session |-> 1,
                         status |-> "PENDING", expected_by |-> CallbackTimeout] >>
    /\ receivedCbs = <<>>
    /\ tsqs \in { <<>>,
                  << [inst |-> 1, status |-> "PENDING", attempt_number |-> 1,
                      max_attempts |-> MAX_TSQ_RETRIES, next_retry_at |-> 0,
                      result_status |-> "", queries |-> 0, indeterminate |-> TRUE,
                      answer |-> "", classified |-> 0] >> }
    /\ reversals = <<>>
    /\ obs = [NoObs EXCEPT !.apiCalls = 1]

SpecTsqFair == InitTsqJobs /\ [][NextTsqJobs]_vars /\ FairTsq

\* C25: a TsqRequest that is PENDING and due is eventually sent to the switch
\* by the scheduled processing (and its answer classified); a row that still
\* waits for its retry time when the clock ends is left out
C25_DueIsEventuallySent ==
    \A t \in 1..MaxTsq :
       (t <= Len(tsqs) /\ IsDue(t))
          ~> /\ t <= Len(tsqs)
             /\ \/ tsqs[t].queries > 0
                \/ tsqs[t].status = "PENDING" /\ now = MaxTime

\* ------------------------------------------------ TSQ: transport failure

\* The query of process p for row t fails in transport
TransportFails(p, t) ==
    /\ proc[p].pc = "tsq_sent" /\ proc[p].tsq = t
    /\ proc'[p] # proc[p]
    /\ tsqs'[t].classified = tsqs[t].classified

\* C26: a transport failure of the query counts as the attempt it was: the
\* row goes back to PENDING with a retry time while its attempt_number is
\* below the maximum and becomes FAILED without a retry time otherwise
C26_TransportFailureCounts ==
    [][\A p \in Procs : \A t \in 1..Len(tsqs) :
          TransportFails(p, t) =>
             IF tsqs[t].attempt_number < tsqs[t].max_attempts
             THEN /\ tsqs'[t].status = "PENDING"
                  /\ tsqs'[t].next_retry_at = now + TSQ_RETRY_INTERVAL
                  /\ tsqs'[t].attempt_number = tsqs[t].attempt_number
             ELSE /\ tsqs'[t].status = "FAILED"
                  /\ tsqs'[t].next_retry_at = Null]_vars

\* ---------------------------------------------------------- step retry

\* A flow whose API step has a retry_config with max_retries 3
FlowRetry == [is_sync |-> TRUE,
              steps |-> << Step("START", FALSE, 0), Step("API_CALL", FALSE, 3),
                           Step("END", FALSE, 0) >>]

InitRetry ==
    /\ flow = FlowRetry
    /\ InitCommon

SpecRetry == InitRetry /\ [][NextQueue]_vars

\* The loop of process p is about to try its failed step again
Retrying(p) ==
    /\ proc[p].pc = "loop" /\ proc[p].se # 0
    /\ stepExecs[proc[p].se].status = "FAILED"
    /\ stepExecs[proc[p].se].inst = proc[p].inst
    /\ stepExecs[proc[p].se].step = proc[p].step

\* C27: a retried step goes on with the StepExecution record of its first
\* attempt: the loop creates no new record for a retry
C27_RetryKeepsRecord ==
    [][\A p \in Procs :
          (Retrying(p) /\ proc'[p] # proc[p]) => Len(stepExecs') = Len(stepExecs)]_vars

\* ------------------------------------------------------ the next step

MaxTransitions == 2

\* A step with a step_code: its prefix and whether it includes 'FAIL'
CodedStep(t, prefix, fail) ==
    [type |-> t, includeCallback |-> FALSE, max_retries |-> 0,
     prefix |-> prefix, fail |-> fail]

\* A CONDITION step with condition_field, success_values and failure_values
ConditionStep ==
    [type |-> "CONDITION", includeCallback |-> FALSE, max_retries |-> 0,
     prefix |-> "NEC", fail |-> FALSE, condition_field |-> TRUE,
     success_values |-> {1}, failure_values |-> {2}]

\* The second step is a CONDITION or a TASK; the fourth is a plain step, the
\* FAIL step of the condition, or the FAIL step of another code
GraphSteps ==
    { << Step("START", FALSE, 0), second, CodedStep("TASK", "NEC", FALSE),
         fourth, Step("END", FALSE, 0) >> :
        second \in {ConditionStep, CodedStep("TASK", "NEC", FALSE)},
        fourth \in {CodedStep("TASK", "NEC", FALSE), CodedStep("TASK", "NEC", TRUE),
                    CodedStep("TASK", "FT", TRUE)} }

\* Transitions out of the second and the third step, with priority 0 or 1,
\* unconditional or comparing the followed field with a value
GraphTransitions ==
    [from_step : {2, 3}, to_step : {3, 5}, priority : {0, 1},
     conditional : {FALSE}, equals : {0}]
    \cup [from_step : {2, 3}, to_step : {3, 5}, priority : {0, 1},
          conditional : {TRUE}, equals : {1, 2}]

RECURSIVE SeqsUpTo(_, _)
SeqsUpTo(S, n) ==
    IF n = 0 THEN {<<>>}
    ELSE LET shorter == SeqsUpTo(S, n - 1)
         IN shorter \cup {Append(q, x) : q \in shorter, x \in S}

\* The second step of an instance has run in a request of the operator; its
\* payload holds the followed field absent, 1 or 2
InitNext ==
    /\ \E st \in GraphSteps : \E tr \in SeqsUpTo(GraphTransitions, MaxTransitions) :
          flow = [is_sync |-> FALSE, steps |-> st, transitions |-> tr]
    /\ now = 0 /\ secs = 0
    /\ jobs = [j \in JobIds |-> [NewJob EXCEPT !.status = "COMPLETED"]]
    /\ sel = [w \in Workers |-> {}]
    /\ batch = [w \in Workers |-> <<>>]
    /\ \E d \in {0, 1, 2} :
          proc = [p \in Procs |->
                    IF p \in Handlers
                    THEN [Idle EXCEPT !.pc = "finish", !.kind = "manual", !.inst = 1,
                                      !.step = 2, !.se = 2, !.stepCount = 2,
                                      !.result = "done", !.payload = d]
                    ELSE Idle]
    /\ instances = [i \in Insts |->
                      [NewInstance EXCEPT !.status = "RUNNING", !.current_step = 1]]
    /\ stepExecs = << [inst |-> 1, step |-> 1, status |-> "COMPLETED",
                       attempt_number |-> 1, actionCode |-> "none"],
                      [inst |-> 1, step |-> 2, status |-> "RUNNING",
                       attempt_number |-> 1, actionCode |-> "none"] >>
    /\ expectedCbs = <<>> /\ receivedCbs = <<>>
    /\ tsqs = <<>> /\ reversals = <<>>
    /\ obs = NoObs

NextNext == \E h \in Handlers : StepFinish(h)

SpecNext == InitNext /\ [][NextNext]_vars

\* The coordinator, with next as the step getNextStep returned: no step or
\* an END step completes the instance, any other step is run next
GoesOn(p, next) ==
    IF next = 0 \/ flow.steps[next].type = "END"
    THEN instances'[proc[p].inst].status = "COMPLETED" /\ proc'[p].pc = "idle"
    ELSE proc'[p].pc = "loop" /\ proc'[p].step = next

Least(S) == CHOOSE x \in S : \A y \in S : x <= y

InitCycle ==
    /\ flow \in {FlowCycle, FlowCycleSync}
    /\ InitCommon

\* A worker runs the queued jobs through executeFlowInstance and the switch
\* delivers callbacks that resume the instance
NextCycle ==
    \/ \E w \in {"w1"} : WorkerStep(w) \/ LoopStep(w)
    \/ \E h \in Handlers :
          \/ \E s \in Insts : ReceiveCallback(h, s)
          \/ MatchCallback(h)
          \/ resumeAfterCallback(h)
          \/ LoopStep(h)

SpecCycle == InitCycle /\ [][NextCycle]_vars

\* The loop of process p is left over the ceiling
OverCeiling(p) ==
    /\ proc[p].pc = "loop" /\ proc[p].step # 0
    /\ proc[p].stepCount >= maxSteps
    /\ proc'[p] # proc[p]

\* C28: a run executes at most maxSteps steps, and a run that is left over
\* the ceiling leaves its instance FAILED with the step-limit error
C28_CeilingIsFatal ==
    [][\A p \in Procs :
          /\ proc'[p].stepCount <= maxSteps
          /\ OverCeiling(p) =>
                /\ instances'[proc[p].inst].status = "FAILED"
                /\ instances'[proc[p].inst].last_error = "step limit"]_vars

\* ------------------------------------------------- a step fails for good

\* A transfer whose first leg is answered by a callback and whose second leg
\* is called when the flow is resumed
FlowTwoLegs == [is_sync |-> FALSE,
                steps |-> << Step("START", FALSE, 0), Step("API_CALL", TRUE, 0),
                             Step("API_CALL", FALSE, 0), Step("END", FALSE, 0) >>]

InitFail ==
    /\ flow = FlowTwoLegs
    /\ InitCommon

NextFail ==
    \/ \E w \in {"w1"} : WorkerStep(w) \/ LoopStep(w)
    \/ \E h \in Handlers : CallbackStep(h) \/ LoopStep(h)

SpecFail == InitFail /\ [][NextFail]_vars

\* The step of process p failed and is not retried: the error leaves the loop
FailsForGood(p) ==
    /\ proc[p].pc = "catch" /\ proc'[p] # proc[p]
    /\ proc'[p].pc # "loop"

\* C29: when a step fails for good, the instance is FAILED with the error
\* recorded and the run executes no further step, in a run of
\* executeFlowInstance and in a run resumed after a callback
C29_FailureMarksInstance ==
    [][\A p \in Procs :
          FailsForGood(p) =>
             /\ instances'[proc[p].inst].status = "FAILED"
             /\ instances'[proc[p].inst].last_error = "step failed"
             /\ proc'[p].pc \notin {"loop", "exec", "finish", "catch"}]_vars

\* ------------------------------------------- malformed transition conditions

\* Transitions out of the second step: unconditional, comparing the followed
\* field, or with a malformed condition_expression
ConditionTransitions ==
    [from_step : {2}, to_step : {3, 5}, priority : {0, 1},
     conditional : {FALSE}, equals : {0}, malformed : {""}]
    \cup [from_step : {2}, to_step : {3, 5}, priority : {0, 1},
          conditional : {TRUE}, equals : {1, 2}, malformed : {""}]
    \cup [from_step : {2}, to_step : {3, 5}, priority : {0, 1},
          conditional : {TRUE}, equals : {0}, malformed : {"unparsable", "throws"}]

\* The second step of an instance has run; its flow has up to MaxTransitions
\* transitions out of that step
InitCondition ==
    /\ \E tr \in SeqsUpTo(ConditionTransitions, MaxTransitions) :
          flow = [is_sync |-> FALSE,
                  steps |-> << Step("START", FALSE, 0), Step("TASK", FALSE, 0),
                               Step("TASK", FALSE, 0), Step("TASK", FALSE, 0),
                               Step("END", FALSE, 0) >>,
                  transitions |-> tr]
    /\ now = 0 /\ secs = 0
    /\ jobs = [j \in JobIds |-> [NewJob EXCEPT !.status = "COMPLETED"]]
    /\ sel = [w \in Workers |-> {}]
    /\ batch = [w \in Workers |-> <<>>]
    /\ \E d \in {0, 1, 2} :
          proc = [p \in Procs |->
                    IF p \in Handlers
                    THEN [Idle EXCEPT !.pc = "finish", !.kind = "manual", !.inst = 1,
                                      !.step = 2, !.se = 2, !.stepCount = 2,
                                      !.result = "done", !.payload = d]
                    ELSE Idle]
    /\ instances = [i \in Insts |->
                      [NewInstance EXCEPT !.status = "RUNNING", !.current_step = 1]]
    /\ stepExecs = << [inst |-> 1, step |-> 1, status |-> "COMPLETED",
                       attempt_number |-> 1, actionCode |-> "none"],
                      [inst |-> 1, step |-> 2, status |-> "RUNNING",
                       attempt_number |-> 1, actionCode |-> "none"] >>
    /\ expectedCbs = <<>> /\ receivedCbs = <<>>
    /\ tsqs = <<>> /\ reversals = <<>>
    /\ obs = NoObs

SpecCondition == InitCondition /\ [][NextNext]_vars

\* C31: a transition whose condition_expression cannot be parsed or
\* evaluated is not taken: the next step is the one the well-formed
\* transitions alone determine
C31_MalformedFailsClosed ==
    [][\A p \in Procs :
          (proc[p].pc = "finish" /\ proc[p].result = "done" /\ proc'[p] # proc[p]) =>
             LET d == proc[p].payload
                 T == Transitions(flow)
                 out == {n \in 1..Len(T) : T[n].from_step = proc[p].step}
                 sat == {n \in out : /\ T[n].malformed = ""
                                      /\ (~T[n].conditional \/ T[n].equals = d)}
             IN /\ sat # {} =>
                      \E n \in sat :
                         /\ \A m \in sat : T[n].priority <= T[m].priority
                         /\ GoesOn(p, T[n].to_step)
                /\ (out # {} /\ sat = {}) => GoesOn(p, 0)]_vars

\* ------------------------------------------------------ manual resumption

\* A worker runs the flows; the handler serves the callbacks of the switch
\* and the operator's resume of an instance in MANUAL_INTERVENTION
NextManual ==
    \/ \E w \in {"w1"} : WorkerStep(w) \/ LoopStep(w)
    \/ \E h \in Handlers : CallbackStep(h) \/ LoopStep(h)
    \/ \E h \in Handlers : \E i \in Insts : resumeFlowInstance(h, i)

\* Flows that suspend on a callback or on a manual step
InitManual ==
    /\ flow \in {FlowAsync, FlowManual}
    /\ InitCommon

SpecManual == InitManual /\ [][NextManual]_vars

\* A handler starts the run that resumes a suspended instance
Resumes(h) ==
    /\ proc[h].pc \in {"idle", "resume"}
    /\ proc'[h].pc = "loop"

\* C32: a resumption, by callback or by the operator, continues with the
\* step that follows the one that suspended the instance, so that none of
\* the steps before it is executed again
C32_ResumeContinues ==
    [][\A h \in Handlers :
          Resumes(h) =>
             LET i == proc'[h].inst
                 suspended == IF proc[h].pc = "resume"
                              THEN stepExecs[proc[h].se].step
                              ELSE instances[i].current_step
             IN proc'[h].step =
                  getNextStep(flow, suspended, instances[i].current_payload)]_vars

\* ------------------------------------------ the unmatched-callback pass

\* Expectations of a session that matchUnmatchedCallbacks looks for
WaitingFor(s) == {e \in 1..Len(expectedCbs) :
                    expectedCbs[e].session = s /\ expectedCbs[e].status = "WAITING"}

\* callbackMatcherJob.matchUnmatchedCallbacks, the pass scheduled every
\* minute, for one unprocessed received callback: it looks for an
\* expectation of the session with status WAITING; only when it finds one
\* the payload goes through processIncomingCallback again and the received
\* callback is marked processed, otherwise nothing is written
matchUnmatchedCallbacks(h) ==
    /\ proc[h].pc = "idle"
    /\ \E r \in 1..Len(receivedCbs) :
          /\ ~receivedCbs[r].processed
          /\ IF WaitingFor(receivedCbs[r].session) = {}
             THEN UNCHANGED <<receivedCbs, proc>>
             ELSE /\ Len(receivedCbs) < MaxCallbacks
                  /\ receivedCbs' =
                        Append([receivedCbs EXCEPT ![r].processed = TRUE],
                               [session |-> receivedCbs[r].session,
                                processed |-> FALSE])
                  /\ \E e \in Found(PendingFor(receivedCbs[r].session)) :
                        proc' = [proc EXCEPT ![h] =
                                   IF e = 0 THEN Idle
                                   ELSE [Idle EXCEPT !.pc = "matched",
                                                     !.kind = "callback",
                                                     !.ec = e,
                                                     !.rc = Len(receivedCbs) + 1]]
    /\ UNCHANGED <<secs, reversals, now, flow, jobs, sel, batch, instances, stepExecs,
                   expectedCbs, tsqs, obs>>

\* A worker runs the flow, the switch delivers callbacks to the handler,
\* and the unmatched-callback pass runs
NextUnmatched ==
    \/ \E w \in {"w1"} : WorkerStep(w) \/ LoopStep(w)
    \/ \E h \in Handlers : \E s \in Insts : ReceiveCallback(h, s)
    \/ \E h \in Handlers : MatchCallback(h) \/ resumeAfterCallback(h) \/ LoopStep(h)
    \/ \E h \in Handlers : matchUnmatchedCallbacks(h)

\* The worker and a handler that has started run on to their end, and the
\* pass is scheduled every minute; whether a callback arrives is up to the
\* switch
FairUnmatched ==
    /\ WF_vars(\E w \in {"w1"} : WorkerStep(w) \/ LoopStep(w))
    /\ WF_vars(\E h \in Handlers :
                  MatchCallback(h) \/ resumeAfterCallback(h) \/ LoopStep(h))
    /\ WF_vars(\E h \in Handlers : matchUnmatchedCallbacks(h))

SpecUnmatched == InitMatch /\ [][NextUnmatched]_vars /\ FairUnmatched

\* C33: a received callback that found no expectation stays unprocessed,
\* and once a PENDING expectation of its session exists the periodic pass
\* eventually marks it processed and the expectation MATCHED
C33_UnmatchedIsEventuallyMatched ==
    /\ [][\A h \in Handlers : \A s \in Insts :
            (proc[h].pc = "idle" /\ Len(receivedCbs') = Len(receivedCbs) + 1
                /\ receivedCbs'[Len(receivedCbs')].session = s
                /\ PendingFor(s) = {})
               => ~receivedCbs'[Len(receivedCbs')].processed]_vars
    /\ \A r \in 1..MaxCallbacks : \A e \in 1..MaxCallbacks :
          (/\ r <= Len(receivedCbs) /\ e <= Len(expectedCbs)
           /\ ~receivedCbs[r].processed
           /\ expectedCbs[e].session = receivedCbs[r].session
           /\ expectedCbs[e].status = "PENDING")
             ~> (/\ r <= Len(receivedCbs) /\ e <= Len(expectedCbs)
                 /\ \/ receivedCbs[r].processed
                    \/ expectedCbs[e].status = "MATCHED")

\* ------------------------------------------------- runs of the scheduler

\* scheduleTsqForIndeterminateResponses, its query: the instances that have
\* waited for their callback longer than the threshold and have no TSQ row
scheduleSelect(p) ==
    /\ proc[p].pc = "idle"
    /\ LET found == {i \in Insts :
                       /\ instances[i].status = "WAITING_CALLBACK"
                       /\ instances[i].created_at < now - IndeterminateAge
                       /\ \A t \in 1..Len(tsqs) : tsqs[t].inst # i}
       IN /\ found # {}
          /\ proc' = [proc EXCEPT ![p] = [Idle EXCEPT !.pc = "sched_create",
                                                      !.kind = "tsq",
                                                      !.todo = IdsOf(found)]]
    /\ UNCHANGED <<secs, reversals, now, flow, jobs, sel, batch, instances, stepExecs,
                   expectedCbs, receivedCbs, tsqs, obs>>

\* scheduleTsqForIndeterminateResponses, one round of its loop:
\* createTsqRequest inserts a row for the next instance of the result
scheduleCreate(p) ==
    /\ proc[p].pc = "sched_create"
    /\ Len(tsqs) < NInst * Cardinality(Schedulers)
    /\ tsqs' = createTsqRequest(Head(proc[p].todo))
    /\ proc' = [proc EXCEPT ![p] =
                  IF Tail(proc[p].todo) = <<>> THEN Idle
                  ELSE [proc[p] EXCEPT !.todo = Tail(proc[p].todo)]]
    /\ UNCHANGED <<secs, reversals, now, flow, jobs, sel, batch, instances, stepExecs,
                   expectedCbs, receivedCbs, obs>>

\* Runs of the scheduler next to the timeout sweeps, while time passes and
\* the callback of the instance may still arrive and resume it
NextSchedule ==
    \/ \E p \in Schedulers : scheduleSelect(p) \/ scheduleCreate(p)
    \/ \E h \in Handlers : \E i \in Insts : ReceiveCallback(h, i)
    \/ \E h \in Handlers : MatchCallback(h) \/ resumeAfterCallback(h)
    \/ \E h \in Handlers : StepBegin(h) \/ StepExec(h) \/ StepFinish(h)
    \/ callbackMatcherJob_checkTimedOutCallbacks
    \/ checkTimedOutCallbacks
    \/ Tick

SpecSchedule == InitTsq /\ [][NextSchedule]_vars

\* C34: an instance stuck in WAITING_CALLBACK never has two TsqRequests,
\* also when runs of the scheduler and the timeout path overlap
C34_OneTsqPerInstance ==
    \A i \in Insts :
        Cardinality({t \in 1..Len(tsqs) : tsqs[t].inst = i}) <= 1

\* --------------------------------------------- suspension after a resume

\* The expectation registered for step execution se is MATCHED and
\* resumeAfterCallback has run for it
ResumedFor(se) ==
    /\ \E e \in 1..Len(expectedCbs) :
          expectedCbs[e].se = se /\ expectedCbs[e].status = "MATCHED"
    /\ \E k \in 1..Len(obs.resumes) : obs.resumes[k] = se

\* C35: when the callback of a step was matched and the resume ran before
\* the run that registered the expectation recorded the suspension, that
\* run does not overwrite the status the resume has set
C35_SuspensionKeepsResume ==
    [][\A p \in Procs :
          (/\ proc[p].pc = "finish" /\ proc[p].result = "callback"
           /\ proc'[p] # proc[p]
           /\ ResumedFor(proc[p].se))
             => instances'[proc[p].inst].status = instances[proc[p].inst].status]_vars

\* ------------------------------------------------- a job that runs again

\* A transfer of two legs is executed from the queue
InitRerun ==
    /\ flow = FlowRerun
    /\ InitCommon

\* One worker processes the queue while time passes and stale leases are
\* released
NextRerun ==
    \/ \E w \in {"w1"} : WorkerStep(w) \/ LoopStep(w)
    \/ cleanupStaleJobs
    \/ Tick

SpecRerun == InitRerun /\ [][NextRerun]_vars

\* Process p sends the request of the API_CALL step it executes
SendsApiCall(p) ==
    /\ proc[p].pc = "exec"
    /\ flow.steps[proc[p].step].type = "API_CALL"
    /\ obs'.apiCalls = obs.apiCalls + 1
    /\ proc'[p] # proc[p]

\* C36: the request of an API_CALL step is not sent again for an instance
\* that has a COMPLETED execution of that step, also when the job of the
\* instance runs again after a retry or a reclaimed lease
C36_CompletedCallNotRepeated ==
    [][\A p \in Procs :
          SendsApiCall(p) =>
             ~\E x \in 1..Len(stepExecs) :
                 /\ stepExecs[x].inst = proc[p].inst
                 /\ stepExecs[x].step = proc[p].step
                 /\ stepExecs[x].status = "COMPLETED"]_vars

\* ------------------------------------------- final TSQ classifications

\* The response stored for row t was classified SUCCESS, FAILED or NOT_FOUND
ClassifiedFinal(t) ==
    /\ tsqs[t].classified > 0
    /\ tsqs[t].result_status \in {"SUCCESS", "FAILED", "NOT_FOUND"}

\* C37: a TsqRequest classified SUCCESS, FAILED or NOT_FOUND has that
\* status and keeps it, and no further query is sent for it, also when
\* the notification that follows the classification fails
C37_ClassificationIsFinal ==
    /\ [](\A t \in 1..Len(tsqs) :
            ClassifiedFinal(t) => tsqs[t].status = tsqs[t].result_status)
    /\ [][\A t \in 1..Len(tsqs) :
            ClassifiedFinal(t) => /\ tsqs'[t].status = tsqs[t].status
                                  /\ tsqs'[t].queries = tsqs[t].queries]_vars

\* --------------------------------------------------- the end of a run

\* Jobs whose payload is an object or a string that is no JSON
InitPayload ==
    /\ flow = FlowSync
    /\ now = 0 /\ secs = 0
    /\ \E pl \in [JobIds -> {"object", "unparsable"}] :
          jobs = [j \in JobIds |->
                    [status |-> "PENDING", locked_by |-> "", locked_at |-> Null,
                     attempt_number |-> 0, max_attempts |-> JobMaxAttempts,
                     next_retry_at |-> Null, priority |-> 1, created_at |-> 0,
                     payload |-> pl[j]]]
    /\ sel = [w \in Workers |-> {}]
    /\ batch = [w \in Workers |-> <<>>]
    /\ proc = [p \in Procs |-> Idle]
    /\ instances = [i \in Insts |-> NewInstance]
    /\ stepExecs = <<>>
    /\ expectedCbs = <<>> /\ receivedCbs = <<>>
    /\ tsqs = <<>> /\ reversals = <<>>
    /\ obs = NoObs

\* One worker processes the queue while time passes
NextPayload ==
    \/ \E w \in {"w1"} : WorkerStep(w) \/ LoopStep(w)
    \/ Tick

SpecPayload == InitPayload /\ [][NextPayload]_vars

\* Worker w is inside a run of processFlowExecutionJobs that holds job j
HoldsJob(w, j) ==
    \/ j \in sel[w]
    \/ \E k \in 1..Len(batch[w]) : batch[w][k].id = j
    \/ proc[w].job = j

\* C38: a job is PROCESSING only while the run that claimed it is going on:
\* when processFlowExecutionJobs has returned, each job it claimed is
\* COMPLETED, FAILED or PENDING again
C38_NoJobLeftProcessing ==
    \A j \in JobIds :
        jobs[j].status = "PROCESSING" => \E w \in Workers : HoldsJob(w, j)

\* ------------------------------------------------- synchronous requests

\* processRequest with isSync=true: the instance just created is executed
\* in the request
processRequest(h, i) ==
    /\ proc[h].pc = "idle"
    /\ instances[i].status = "PENDING"
    /\ EnterFlow(h, i, "sync", Idle)
    /\ UNCHANGED <<secs, reversals, now, flow, jobs, sel, batch, stepExecs, expectedCbs,
                   receivedCbs, tsqs, obs>>

\* processRequest, after executeFlowInstance returned: the instance is
\* marked callback_sent and the result of the run is the answer
processRequestAnswer(h) ==
    /\ proc[h].pc = "sync_done"
    /\ instances' = [instances EXCEPT ![proc[h].inst].callback_sent = TRUE]
    /\ proc' = [proc EXCEPT ![h] = Idle]
    /\ UNCHANGED <<secs, reversals, now, flow, jobs, sel, batch, stepExecs, expectedCbs,
                   receivedCbs, tsqs, obs>>

\* Instances are created by synchronous requests; no job is queued
InitSync ==
    /\ flow \in {FlowSync, FlowAsync, FlowSyncCallback}
    /\ now = 0 /\ secs = 0
    /\ jobs = [j \in JobIds |-> [NewJob EXCEPT !.status = "COMPLETED"]]
    /\ sel = [w \in Workers |-> {}]
    /\ batch = [w \in Workers |-> <<>>]
    /\ proc = [p \in Procs |-> Idle]
    /\ instances = [i \in Insts |-> NewInstance]
    /\ stepExecs = <<>>
    /\ expectedCbs = <<>> /\ receivedCbs = <<>>
    /\ tsqs = <<>> /\ reversals = <<>>
    /\ obs = NoObs

\* The handler serves the synchronous request and, later, the callbacks of
\* the switch
NextSync ==
    \/ \E h \in Handlers : \E i \in Insts : processRequest(h, i)
    \/ \E h \in Handlers : processRequestAnswer(h) \/ LoopStep(h)
    \/ \E h \in Handlers : \E s \in Insts : ReceiveCallback(h, s)
    \/ \E h \in Handlers : MatchCallback(h) \/ resumeAfterCallback(h)

SpecSync == InitSync /\ [][NextSync]_vars

\* C39: callback_sent becomes true only for an instance whose final
\* outcome the caller has received: a synchronous request whose run ends
\* suspended does not mark the instance
C39_SentOnlyWhenFinal ==
    [][\A i \in Insts :
          (~instances[i].callback_sent /\ instances'[i].callback_sent)
             => instances'[i].status \in {"COMPLETED", "FAILED"}]_vars

\* ------------------------------------------------ rows left in flight

\* Every pass and every request that has started runs on to its end, and
\* the scheduled passes keep running; which answer the switch gives, whether
\* the GIP configuration exists and what the operator asks is not up to
\* the service
FairInFlight ==
    /\ WF_vars(TsqLoopSelect)
    /\ \A p \in {TsqLoop} \cup Handlers :
          /\ WF_vars(TsqNext(p))
          /\ WF_vars(TsqWrite(p))
          /\ WF_vars(\E a \in TsqAnswers : TsqAnswer(p, a))
    /\ WF_vars(scheduleTsqForIndeterminateResponses)
    /\ WF_vars(Tick)

SpecInFlight == InitTsq /\ [][NextClassify]_vars /\ FairInFlight

\* Row t is being processed
InFlight(t) ==
    /\ t <= Len(tsqs)
    /\ tsqs[t].status \in {"IN_PROGRESS", "PROCESSING"}

\* C40: a TsqRequest that is IN_PROGRESS or PROCESSING eventually is
\* PENDING, SUCCESS, FAILED or NOT_FOUND, also when the configuration of the
\* external API is missing or the processing throws
C40_InFlightEnds ==
    \A t \in 1..MaxTsq :
        InFlight(t) ~> (/\ t <= Len(tsqs)
                        /\ tsqs[t].status \in {"PENDING", "SUCCESS", "FAILED",
                                                "NOT_FOUND"})

====
